---- MODULE Spec2Model ----
(***************************************************************************)
(* UBL Gate: the durable commit protocol, the outbox dispatcher workers    *)
(* and the chip submission path (canon rate limiter, pipeline stages,      *)
(* idempotent replay).                                                     *)
(*                                                                         *)
(* The gate service (services/ubl_gate) is modelled from its source.  The  *)
(* runtime crate's DurableStore, OutboxDispatcher, CanonRateLimiter and    *)
(* UblPipeline orchestrator are not part of the source tree at hand; they  *)
(* are modelled from sections 4.8 - 4.11 of the design specification.      *)
(***************************************************************************)
EXTENDS Integers, Sequences, FiniteSets, TLC

\* ------------------------------------------------------------------------
\* Bounds of the model
\* ------------------------------------------------------------------------
MaxCommits == 2
MaxAttempts == 2
NumWorkers == 2

\* ------------------------------------------------------------------------
\* Program constants
\* ------------------------------------------------------------------------
\* OutboxDispatcher::with_backoff(2, 300): base seconds and cap
BackoffBase == 2
BackoffCap == 300
\* run_once_async(64, ..): the batch size of one poll
BatchSize == 64

Min(a, b) == IF a <= b THEN a ELSE b
Max(a, b) == IF a >= b THEN a ELSE b

RECURSIVE Pow2(_)
Pow2(n) == IF n <= 0 THEN 1 ELSE 2 * Pow2(n - 1)

None == "none"

\* Option: None and Some(v)
NoValue == <<>>
Some(v) == <<v>>

\* authorship.rs knock_cid_from_bytes: the BLAKE3 hash of the raw bytes
knock_cid_from_bytes(bytes) == <<"b3", bytes>>

VARIABLES
    store,          \* DurableStore: receipts, chain, outbox, idem (committed rows)
    tx,             \* <<input>> of the open commit_wf_atomically transaction, or <<>>
    commits,        \* number of commit_wf_atomically calls made so far
    last_commit,    \* <<input and result of the last finished commit>>, or <<>>
    workers,        \* outbox worker tasks: pc and the batch each holds
    outbox_endpoint,\* UBL_OUTBOX_ENDPOINT: TRUE when configured
    endpoint_ok,    \* TRUE once the endpoint answers 2xx to every attempt from now on
    last_delivery,  \* the last call of the delivery closure and what became of it
    mark_count,     \* per outbox id: how many times the store marked it delivered
    last_delay,     \* per outbox id: the delay scheduled by its last failure (0: none)
    reqs,           \* POST /v1/chips requests: position in submit_chip_bytes and results
    canon_rate_limiter, \* AppState.canon_rate_limiter: 0 for None, else per_minute
    buckets,        \* CanonRateLimiter: per rate key, the ages of the admitted requests
    solo,           \* per fingerprint: a limiter that sees that fingerprint alone
    admitted,       \* per fingerprint: ages of the requests handed to the pipeline
    vec,            \* the run of execute_vector: position, chip, observation
    receipt,        \* UnifiedReceipt under construction: its stages
    altered,        \* a copy of the receipt's JSON after one change, and the change
    durable_store,  \* AppState.durable_store is Some
    read,           \* the last answer of a read path
    knock_in,       \* the raw bytes handed to knock, as its checks see them
    knock_out,      \* the result of knock on them, once it has run
    write_access_policy,  \* AppState.write_access_policy
    revoked,        \* the cids that stored ubl/revoke chips are aimed at
    now,            \* the clock the expiry of a token is compared with
    session,        \* the McpWsAuth of the open MCP WebSocket session, if any
    writes,         \* the writes that arrived, each with its position and answer
    deny_receipts,  \* the receipts stored by process_knock_rejection
    event_bus,      \* the broadcast channel: what was sent on it, and whether it is closed
    event_store,    \* AppState.event_store: <<its rows>>, or <<>> without an EventStore
    ingest,         \* the ingestion task: position and next message of its receiver
    stream,         \* one GET /v1/events stream: position, receiver, what it yielded
    events_stream_dropped, \* the drop counter, per reason
    mcp_token_rate_limiter, \* AppState.mcp_token_rate_limiter: per_minute and buckets
    instant,        \* the monotonic clock that check reads
    mcp_checks,     \* the calls of check so far and what each returned
    pure_in,        \* <<the arguments of the function under examination>>
    pure_out        \* <<what it returned>>, once it has run

storeVars == <<store, tx, commits, last_commit, mark_count, last_delay>>
outboxVars == <<workers, outbox_endpoint, endpoint_ok, last_delivery>>
gateVars == <<reqs, canon_rate_limiter, buckets, solo, admitted, vec>>

chainVars == <<receipt, altered>>

readVars == <<durable_store, read>>

knockVars == <<knock_in, knock_out>>

authVars == <<write_access_policy, revoked, now, session, writes, deny_receipts>>

eventVars == <<event_bus, event_store, ingest, stream, events_stream_dropped>>

pureVars == <<pure_in, pure_out>>

mcpVars == <<mcp_token_rate_limiter, instant, mcp_checks>>

\* what a call of the MCP token limiter leaves alone
notMcpVars ==
    <<storeVars, outboxVars, gateVars, chainVars, readVars, knockVars, authVars, eventVars,
      pureVars>>

restVars == <<chainVars, readVars, knockVars, authVars, eventVars, pureVars, mcpVars>>

\* what the application of a function leaves alone
notPureVars ==
    <<storeVars, outboxVars, gateVars, chainVars, readVars, knockVars, authVars, eventVars,
      mcpVars>>

\* what the event hub leaves alone
notEventVars ==
    <<storeVars, outboxVars, gateVars, chainVars, readVars, knockVars, authVars, pureVars, mcpVars>>

\* what the read paths leave alone
notReadVars == <<storeVars, outboxVars, gateVars, chainVars, knockVars, authVars, eventVars, pureVars, mcpVars>>

\* what a run of knock leaves alone
notKnockVars == <<storeVars, outboxVars, gateVars, chainVars, readVars, authVars, eventVars, pureVars, mcpVars>>

\* what the steps of a write before the rate limit leave alone
notAuthVars ==
    <<storeVars, outboxVars, gateVars, chainVars, readVars, knockVars, eventVars, pureVars, mcpVars>>

vars == <<storeVars, outboxVars, gateVars, restVars>>

\* ------------------------------------------------------------------------
\* Durable store (spec 4.10)
\* ------------------------------------------------------------------------
ReceiptCids == {"b3:r1", "b3:r2"}
ReceiptBodies == {"body-a", "body-b"}
IdemKeys == {"idem-1"}
EventTypes == {"emit_receipt", "other"}
OutboxEventLists == {<<>>, <<"emit_receipt">>, <<"other">>, <<"emit_receipt", "other">>}

\* CommitInput as built in test_state_with_receipt_store
CommitInput ==
    [receipt_cid : ReceiptCids,
     receipt_json : ReceiptBodies,
     idem_key : IdemKeys \cup {None},
     outbox_events : OutboxEventLists,
     fail_after_receipt_write : BOOLEAN]

ChainOf(cid) == {<<cid, "wa">>, <<cid, "tr">>, <<cid, "wf">>}

EmptyStore ==
    [receipts |-> [c \in {} |-> None],
     chain |-> {},
     outbox |-> <<>>,
     idem |-> [k \in {} |-> None]]

\* the receipt row is written over the one that is there
WriteReceiptOverwrites(s, input) ==
    [s EXCEPT !.receipts =
        [c \in DOMAIN s.receipts \cup {input.receipt_cid} |->
            IF c = input.receipt_cid THEN input.receipt_json ELSE s.receipts[c]]]

\* 1. receipt body keyed by receipt_cid; a duplicate insert is a no-op
WriteReceipt(s, input) ==
    IF input.receipt_cid \in DOMAIN s.receipts
    THEN s
    ELSE [s EXCEPT !.receipts =
            [c \in DOMAIN s.receipts \cup {input.receipt_cid} |->
                IF c = input.receipt_cid THEN input.receipt_json ELSE s.receipts[c]]]

\* 2. auth-chain edges wa -> tr -> wf, each a row
WriteChain(s, input) ==
    [s EXCEPT !.chain = s.chain \cup ChainOf(input.receipt_cid)]

\* a new outbox row is due at once.  Time is kept relative to the present:
\* next_in = next_attempt_at - now, in seconds, and 0 when that time has come
NewOutboxRow(event_type, cid) ==
    [event_type |-> event_type,
     payload |-> cid,
     attempts |-> 0,
     next_in |-> 0,
     state |-> "pending",
     locked_by |-> 0]

\* 3. one row per outbox event, in pending state
WriteOutbox(s, input) ==
    [s EXCEPT !.outbox = s.outbox \o
        [i \in 1..Len(input.outbox_events) |->
            NewOutboxRow(input.outbox_events[i], input.receipt_cid)]]

\* 4. idempotency index (idem_key -> receipt_cid) if provided
WriteIdem(s, input) ==
    IF input.idem_key = None \/ input.idem_key \in DOMAIN s.idem
    THEN s
    ELSE [s EXCEPT !.idem =
            [k \in DOMAIN s.idem \cup {input.idem_key} |->
                IF k = input.idem_key THEN input.receipt_cid ELSE s.idem[k]]]

\* ROLLBACK: the rows written inside the transaction are discarded
RollbackKeepsRows(before, written) == written
Rollback(before, written) == before

\* commit_wf_atomically: one transaction; the fail_after_receipt_write hook
\* aborts after the receipt row and before any outbox row
CommitResult(s, input) ==
    LET s1 == WriteReceipt(s, input) IN
    IF input.fail_after_receipt_write
    THEN [ok |-> FALSE, store |-> Rollback(s, s1)]
    ELSE [ok |-> TRUE,
          store |-> WriteIdem(WriteOutbox(WriteChain(s1, input), input), input)]

get_receipt(s, cid) == IF cid \in DOMAIN s.receipts THEN s.receipts[cid] ELSE None

PendingIds(s) == {i \in 1..Len(s.outbox) : s.outbox[i].state = "pending"}
outbox_pending(s) == Cardinality(PendingIds(s))

\* BEGIN: writers are serialized, one open write transaction at a time
CommitBegin(input) ==
    /\ tx = <<>>
    /\ tx' = <<input>>
    /\ commits' = commits + 1
    /\ UNCHANGED <<store, last_commit, workers, outbox_endpoint, endpoint_ok,
                   last_delivery, mark_count, last_delay,
                   gateVars, restVars>>

\* COMMIT or ROLLBACK: the transaction's rows become visible at once or never
CommitEnd ==
    /\ tx # <<>>
    /\ LET r == CommitResult(store, tx[1]) IN
        /\ store' = r.store
        /\ mark_count' = [i \in 1..Len(r.store.outbox) |->
                            IF i \in DOMAIN mark_count THEN mark_count[i] ELSE 0]
        /\ last_commit' = <<[input |-> tx[1], ok |-> r.ok]>>
    /\ tx' = <<>>
    /\ last_delay' = [i \in 1..Len(store'.outbox) |->
                        IF i \in DOMAIN last_delay THEN last_delay[i] ELSE 0]
    /\ UNCHANGED <<commits, workers, outbox_endpoint, endpoint_ok, last_delivery,
                   gateVars, restVars>>

\* ------------------------------------------------------------------------
\* Outbox dispatcher (spec 4.11) and the gate's worker tasks (main.rs)
\* ------------------------------------------------------------------------
Workers == 1..NumWorkers
Responses == {"2xx", "non2xx", "send_error"}

\* OutboxDispatcher::new(store).with_backoff(2, 300)
BackoffSwapped == [base |-> BackoffCap, cap |-> BackoffBase]
Backoff == [base |-> BackoffBase, cap |-> BackoffCap]

\* delay before the next attempt after a failure: base * 2^min(attempts, cap)
BackoffDelay(attempts) == Backoff.base * Pow2(Min(attempts, Backoff.cap))

RECURSIVE SortedSeq(_)
SortedSeq(S) ==
    IF S = {} THEN <<>>
    ELSE LET m == CHOOSE x \in S : \A y \in S : x <= y
         IN <<m>> \o SortedSeq(S \ {m})

Take(q, n) == [i \in 1..Min(Len(q), n) |-> q[i]]

\* events the model still follows: an event that can only fail again is left
\* alone once it has failed MaxAttempts times
Followed(row) == row.event_type = "emit_receipt" \/ row.attempts < MaxAttempts

\* pending rows that are due and not held by another worker
DueIds(s) ==
    {i \in PendingIds(s) :
        /\ s.outbox[i].next_in = 0
        /\ s.outbox[i].locked_by = 0
        /\ Followed(s.outbox[i])}

ClaimBatch(s, w, ids) ==
    [s EXCEPT !.outbox =
        [i \in 1..Len(s.outbox) |->
            IF i \in ids THEN [s.outbox[i] EXCEPT !.locked_by = w] ELSE s.outbox[i]]]

\* on success: mark delivered, remove from pending
MarkDelivered(s, id) ==
    [s EXCEPT !.outbox[id].state = "delivered", !.outbox[id].locked_by = 0]

\* on failure: increment attempts, schedule the next attempt
MarkFailed(s, id) ==
    LET a == s.outbox[id].attempts + 1 IN
    [s EXCEPT !.outbox[id].attempts = a,
              !.outbox[id].next_in = BackoffDelay(a),
              !.outbox[id].locked_by = 0]

\* the status check is missing: any answer of the endpoint counts as success
deliver_AcceptsAnyAnswer(endpoint, response) ==
    IF ~endpoint THEN "ok"
    ELSE IF response = "send_error" THEN "err"
    ELSE "ok"
\* a delivery that fails when no endpoint is configured
deliver_RequiresEndpoint(endpoint, response) ==
    IF ~endpoint THEN "err"
    ELSE IF response = "send_error" THEN "err"
    ELSE IF response # "2xx" THEN "err"
    ELSE "ok"

\* deliver_emit_receipt_event: "ok" or "err"; response is the answer of the POST
deliver_emit_receipt_event(endpoint, response) ==
    IF ~endpoint THEN "ok"
    ELSE IF response = "send_error" THEN "err"
    ELSE IF response # "2xx" THEN "err"
    ELSE "ok"

\* does the delivery function make an HTTP call for this event?
SendsHttp(event_type, endpoint) == event_type = "emit_receipt" /\ endpoint

\* a closure that reports success for an event type it does not know
Handler_AcceptsUnknown(event_type, endpoint, response) ==
    IF event_type = "emit_receipt"
    THEN deliver_emit_receipt_event(endpoint, response)
    ELSE "ok"

\* the closure handed to run_once_async by each worker
Handler(event_type, endpoint, response) ==
    IF event_type = "emit_receipt"
    THEN deliver_emit_receipt_event(endpoint, response)
    ELSE "err"

\* the answers the endpoint may give to an attempt on this row
Answers(row) ==
    IF ~SendsHttp(row.event_type, outbox_endpoint) THEN {None}
    ELSE IF endpoint_ok \/ row.attempts >= MaxAttempts THEN {"2xx"}
    ELSE Responses

\* run_once_async, first half: take up to BatchSize due rows
WorkerPoll(w) ==
    /\ workers[w].pc = "poll"
    /\ LET batch == Take(SortedSeq(DueIds(store)), BatchSize) IN
        /\ store' = ClaimBatch(store, w, {batch[i] : i \in 1..Len(batch)})
        /\ workers' = [workers EXCEPT ![w] =
                        [pc |-> IF batch = <<>> THEN "sleep" ELSE "deliver",
                         batch |-> batch]]
    /\ UNCHANGED <<tx, commits, last_commit, outbox_endpoint, endpoint_ok,
                   last_delivery, mark_count, last_delay,
                   gateVars, restVars>>

\* run_once_async, per event: call the closure, then mark delivered or failed
WorkerDeliver(w) ==
    /\ workers[w].pc = "deliver"
    /\ LET id == Head(workers[w].batch)
           row == store.outbox[id]
           rest == Tail(workers[w].batch)
       IN \E response \in Answers(row) :
            LET result == Handler(row.event_type, outbox_endpoint, response) IN
            /\ store' = IF result = "ok" THEN MarkDelivered(store, id)
                        ELSE MarkFailed(store, id)
            /\ mark_count' = IF result = "ok"
                             THEN [mark_count EXCEPT ![id] = @ + 1]
                             ELSE mark_count
            /\ last_delay' = IF result = "ok" THEN last_delay
                             ELSE [last_delay EXCEPT ![id] =
                                    store'.outbox[id].next_in]
            /\ last_delivery' =
                    [id |-> id, result |-> result, response |-> response,
                     http |-> SendsHttp(row.event_type, outbox_endpoint)]
            /\ workers' = [workers EXCEPT ![w] =
                            [pc |-> IF rest = <<>> THEN "poll" ELSE "deliver",
                             batch |-> rest]]
    /\ UNCHANGED <<tx, commits, last_commit, outbox_endpoint, endpoint_ok,
                   gateVars, restVars>>

\* the worker task ends instead of sleeping and polling again
WorkerWake_Exits(w) ==
    /\ workers[w].pc = "sleep"
    /\ workers' = [workers EXCEPT ![w].pc = "exited"]
    /\ UNCHANGED <<store, tx, commits, last_commit, outbox_endpoint, endpoint_ok,
                   last_delivery, mark_count, last_delay,
                   gateVars, restVars>>

\* processed_count == 0: sleep(500 ms), then poll again
WorkerWake(w) ==
    /\ workers[w].pc = "sleep"
    /\ workers' = [workers EXCEPT ![w].pc = "poll"]
    /\ UNCHANGED <<store, tx, commits, last_commit, outbox_endpoint, endpoint_ok,
                   last_delivery, mark_count, last_delay,
                   gateVars, restVars>>

\* the rows that wait for a later attempt
WaitingIds(s) ==
    {i \in PendingIds(s) : s.outbox[i].next_in > 0 /\ Followed(s.outbox[i])}

Elapse(s, d) ==
    [s EXCEPT !.outbox =
        [i \in 1..Len(s.outbox) |->
            [s.outbox[i] EXCEPT !.next_in = IF @ > d THEN @ - d ELSE 0]]]

\* time passes, up to the next scheduled attempt of a waiting row
Tick ==
    /\ WaitingIds(store) # {}
    /\ \E i \in WaitingIds(store) :
        /\ \A j \in WaitingIds(store) : store.outbox[i].next_in <= store.outbox[j].next_in
        /\ store' = Elapse(store, store.outbox[i].next_in)
    /\ UNCHANGED <<tx, commits, last_commit, workers, outbox_endpoint,
                   endpoint_ok, last_delivery, mark_count, last_delay,
                   gateVars, restVars>>

\* the endpoint recovers: from here on every attempt is answered 2xx
EndpointRecovers ==
    /\ outbox_endpoint
    /\ ~endpoint_ok
    /\ endpoint_ok' = TRUE
    /\ UNCHANGED <<store, tx, commits, last_commit, workers, outbox_endpoint,
                   last_delivery, mark_count, last_delay,
                   gateVars, restVars>>

\* ------------------------------------------------------------------------
\* Chips, canonical fingerprints and policy decisions

MaxRequests == 3
MaxInFlight == 2
WindowSecs == 60

Requests == 1..MaxRequests

\* a chip in canonical form; hash is the hash of its canonical body
ChipA == [type |-> "ubl/document", ver |-> "1.0", world |-> "a/test/t/main", hash |-> "h-a"]
ChipB == [type |-> "ubl/document", ver |-> "1.0", world |-> "a/test/t/main", hash |-> "h-b"]
ChipDeny == [type |-> "evil/hack", ver |-> "1.0", world |-> "a/test/t/main", hash |-> "h-x"]
ChipRequire == [type |-> "ubl/escrow", ver |-> "1.0", world |-> "a/test/t/main", hash |-> "h-q"]

Chips == {ChipA, ChipB, ChipDeny, ChipRequire}
NoChip == [type |-> None, ver |-> None, world |-> None, hash |-> None]

\* the canonical fingerprint {@type, @ver, @world, body_hash}
Fingerprint(chip) == <<chip.type, chip.ver, chip.world, chip.hash>>

\* the bucket key drops the body hash: every chip of a type and world shares one
rate_key_without_hash(chip) == <<chip.type, chip.ver, chip.world>>

\* the key of a chip's bucket in the limiter: its whole fingerprint
rate_key(chip) == Fingerprint(chip)


\* the key of the replay cache, stored as idem_key in the durable store
IdemKeyOf(chip) == chip.hash

\* the decision of the policy chain for a chip: the policies are opaque
\* predicates, here fixed per chip type
PolicyDecision(chip) ==
    IF chip.type = "evil/hack" THEN "Deny"
    ELSE IF chip.type = "ubl/escrow" THEN "Require"
    ELSE "Allow"

\* ------------------------------------------------------------------------
\* Canon rate limiter: a sliding window per bucket. A bucket is the sequence
\* of the ages, oldest first, of the requests it admitted.

\* the window in milliseconds
WindowMs == WindowSecs * 1000

InWindow(bucket) == SelectSeq(bucket, LAMBDA age : age < WindowMs)

\* the limiter's map of buckets: a key has a bucket from its first request on
NoBuckets == [key \in {} |-> <<>>]
BucketOf(map, key) == IF key \in DOMAIN map THEN map[key] ELSE <<>>
PutBucket(map, key, bucket) ==
    [k \in DOMAIN map \cup {key} |-> IF k = key THEN bucket ELSE map[k]]

\* expired entries leave the bucket; a full bucket limits the request and
\* tells when its oldest entry expires; otherwise the request is admitted
check_bucket(bucket, per_minute) ==
    LET live == InWindow(bucket) IN
    IF Len(live) >= per_minute
    THEN [limited |-> TRUE, retry_after |-> WindowMs - live[1], bucket |-> live]
    ELSE [limited |-> FALSE, retry_after |-> 0, bucket |-> Append(live, 0)]

\* Duration::as_secs: the whole seconds of a duration in milliseconds
as_secs(ms) == ms \div 1000

\* the seconds written to Retry-After
retry_secs(retry_after) == as_secs(retry_after) + 1

\* ages grow with time; beyond the window every age counts the same
Older(bucket, d) == [i \in 1..Len(bucket) |-> Min(bucket[i] + d, WindowMs)]

\* the steps of time, in milliseconds, between two requests
RateSteps == {30000, 59500}

\* ------------------------------------------------------------------------
\* Pipeline stages (WA, CHECK, TR, WF) and the replay cache

NoResult ==
    [err |-> None, replayed |-> FALSE, receipt_cid |-> 0, decision |-> None,
     knock_cid |-> NoValue]
NoResponse ==
    [status |-> 0, replay_header |-> FALSE, replayed |-> FALSE,
     receipt_cid |-> 0, decision |-> None, retry_after |-> 0, knock_cid |-> NoValue]
NoRate == [checked |-> FALSE, limited |-> FALSE, solo_limited |-> FALSE, seen |-> 0]

\* the requests that arrived so far
Arrived == DOMAIN reqs

\* a request at its arrival, before the rate limit
NewRequest ==
    [pc |-> "rate", chip |-> NoChip, after |-> {}, trace |-> <<>>,
     wa_cid |-> 0, tr_cid |-> 0, decision |-> None, short_circuited |-> FALSE,
     result |-> NoResult, resp |-> NoResponse, rate |-> NoRate, knock_cid |-> NoValue]

\* the content id of the n-th receipt of the run of request r: the random nonce
\* of WA makes the receipts of two runs differ
StageCid(r, n) == 3 * (r - 1) + n

\* CHECK short-circuits the pipeline on Deny alone
short_circuit(decision) == decision = "Deny"

\* the WF receipt names the TR receipt where the WA receipt belongs
stage_write_finished_swapped(wa_cid, tr_cid, decision) ==
    [receipt_type |-> "ubl/wf", wa_cid |-> tr_cid, tr_cid |-> wa_cid,
     decision |-> decision]

\* the WF receipt links the WA and TR receipts of its request
stage_write_finished(wa_cid, tr_cid, decision) ==
    [receipt_type |-> "ubl/wf", wa_cid |-> wa_cid, tr_cid |-> tr_cid,
     decision |-> decision]

\* the commit of a WF receipt: the receipt, its chain, its emit_receipt event
\* and its entry in the replay cache
WfCommitInput(cid, wf, chip) ==
    [receipt_cid |-> cid, receipt_json |-> wf, idem_key |-> IdemKeyOf(chip),
     outbox_events |-> <<"emit_receipt">>, fail_after_receipt_write |-> FALSE]

\* ErrorCode::http_status, for the errors the pipeline returns here
http_status(code) == IF code = "PolicyDenied" THEN 403 ELSE 500

\* the answer to an error of the pipeline
error_response(code) ==
    [status |-> http_status(code), replay_header |-> FALSE, replayed |-> FALSE,
     receipt_cid |-> 0, decision |-> None, retry_after |-> 0, knock_cid |-> NoValue]

\* the handler never marks a replay
chip_response_unmarked(result) ==
    IF result.err # None THEN error_response(result.err)
    ELSE [status |-> 200, replay_header |-> FALSE, replayed |-> FALSE,
          receipt_cid |-> result.receipt_cid, decision |-> result.decision,
          retry_after |-> 0, knock_cid |-> result.knock_cid]

\* the answer to a processed chip: 200, with X-UBL-Replay on a replay, or the
\* status of the pipeline's error
chip_response(result) ==
    IF result.err # None THEN error_response(result.err)
    ELSE [status |-> 200, replay_header |-> result.replayed,
          replayed |-> result.replayed, receipt_cid |-> result.receipt_cid,
          decision |-> result.decision, retry_after |-> 0,
          knock_cid |-> result.knock_cid]

\* a limited request is handed to the pipeline all the same
limited_response_ignored(check) == <<>>

\* the answer to a limited request: 429 with Retry-After; none otherwise
limited_response(check) ==
    IF check.limited
    THEN <<[status |-> 429, replay_header |-> FALSE, replayed |-> FALSE,
            receipt_cid |-> 0, decision |-> None,
            retry_after |-> retry_secs(check.retry_after), knock_cid |-> NoValue]>>
    ELSE <<>>

Submit(r, chip) ==
    /\ vec.pc = "idle"
    /\ r = Len(reqs) + 1
    /\ Cardinality({q \in Arrived : reqs[q].pc # "done"}) < MaxInFlight
    /\ reqs' = Append(reqs,
            [NewRequest EXCEPT !.chip = chip,
                               !.knock_cid = Some(knock_cid_from_bytes(chip.hash)),
                               !.after = {q \in Arrived : reqs[q].pc = "done"}])
    /\ UNCHANGED <<storeVars, outboxVars, canon_rate_limiter, buckets, solo,
                   admitted, vec, restVars>>

RateLimit(r) ==
    /\ reqs[r].pc = "rate"
    /\ LET chip == reqs[r].chip
           fp == Fingerprint(chip)
           key == rate_key(chip)
           seen == Len(InWindow(BucketOf(admitted, fp)))
       IN  IF canon_rate_limiter = 0
           THEN /\ reqs' = [reqs EXCEPT ![r] = [@ EXCEPT !.pc = "pipeline"]]
                /\ admitted' = PutBucket(admitted, fp,
                                    Append(InWindow(BucketOf(admitted, fp)), 0))
                /\ UNCHANGED <<buckets, solo>>
           ELSE LET check == check_bucket(BucketOf(buckets, key), canon_rate_limiter)
                    alone == check_bucket(BucketOf(solo, fp), canon_rate_limiter)
                    answer == limited_response(check)
                    rate == [checked |-> TRUE, limited |-> check.limited,
                             solo_limited |-> alone.limited, seen |-> seen]
                IN  /\ buckets' = PutBucket(buckets, key, check.bucket)
                    /\ solo' = PutBucket(solo, fp, alone.bucket)
                    /\ IF answer # <<>>
                       THEN /\ reqs' = [reqs EXCEPT ![r] =
                                    [@ EXCEPT !.pc = "done", !.rate = rate,
                                              !.resp = answer[1]]]
                            /\ UNCHANGED admitted
                       ELSE /\ reqs' = [reqs EXCEPT ![r] =
                                    [@ EXCEPT !.pc = "pipeline", !.rate = rate]]
                            /\ admitted' = PutBucket(admitted, fp,
                                    Append(InWindow(BucketOf(admitted, fp)), 0))
    /\ UNCHANGED <<storeVars, outboxVars, canon_rate_limiter, vec, restVars>>

\* process_chip_with_context starts with the lookup in the replay cache
PipelineBegin(r) ==
    /\ reqs[r].pc = "pipeline"
    /\ LET key == IdemKeyOf(reqs[r].chip) IN
       IF key \in DOMAIN store.idem
       THEN LET cid == store.idem[key] IN
            reqs' = [reqs EXCEPT ![r] =
                [@ EXCEPT !.pc = "respond",
                          !.result = [err |-> None, replayed |-> TRUE,
                                      receipt_cid |-> cid,
                                      decision |-> store.receipts[cid].decision,
                                      knock_cid |-> reqs[r].knock_cid]]]
       ELSE reqs' = [reqs EXCEPT ![r] = [@ EXCEPT !.pc = "wa"]]
    /\ UNCHANGED <<storeVars, outboxVars, canon_rate_limiter, buckets, solo,
                   admitted, vec, restVars>>

StageWA(r) ==
    /\ reqs[r].pc = "wa"
    /\ reqs' = [reqs EXCEPT ![r] =
            [@ EXCEPT !.pc = "check", !.wa_cid = StageCid(r, 1),
                      !.trace = Append(@, "WA")]]
    /\ UNCHANGED <<storeVars, outboxVars, canon_rate_limiter, buckets, solo,
                   admitted, vec, restVars>>

StageCheck(r) ==
    /\ reqs[r].pc = "check"
    /\ LET decision == PolicyDecision(reqs[r].chip)
           short == short_circuit(decision)
       IN  reqs' = [reqs EXCEPT ![r] =
                [@ EXCEPT !.pc = IF short THEN "wf" ELSE "tr",
                          !.decision = decision, !.short_circuited = short,
                          !.trace = Append(@, "CHECK")]]
    /\ UNCHANGED <<storeVars, outboxVars, canon_rate_limiter, buckets, solo,
                   admitted, vec, restVars>>

StageTR(r) ==
    /\ reqs[r].pc = "tr"
    /\ reqs' = [reqs EXCEPT ![r] =
            [@ EXCEPT !.pc = "wf", !.tr_cid = StageCid(r, 2),
                      !.trace = Append(@, "TR")]]
    /\ UNCHANGED <<storeVars, outboxVars, canon_rate_limiter, buckets, solo,
                   admitted, vec, restVars>>

\* what the pipeline returns for a WF receipt with this decision: a deny is,
\* by the policy configuration, a result or the error PolicyDenied
WfOutcomes(decision) == IF decision = "Deny" THEN {None, "PolicyDenied"} ELSE {None}

\* WF writes the final receipt and commits it to the durable store
StageWF(r) ==
    /\ reqs[r].pc = "wf"
    /\ LET req == reqs[r]
           decision == IF req.short_circuited THEN "Deny" ELSE req.decision
           wf == stage_write_finished(req.wa_cid, req.tr_cid, decision)
           done == CommitResult(store, WfCommitInput(StageCid(r, 3), wf, req.chip))
       IN  /\ store' = done.store
           /\ \E err \in WfOutcomes(decision) :
                reqs' = [reqs EXCEPT ![r] =
                    [@ EXCEPT !.pc = "respond", !.trace = Append(@, "WF"),
                              !.result = [err |-> err, replayed |-> FALSE,
                                          receipt_cid |-> StageCid(r, 3),
                                          decision |-> decision,
                                          knock_cid |-> reqs[r].knock_cid]]]
    /\ mark_count' = [i \in 1..Len(store'.outbox) |->
                        IF i \in DOMAIN mark_count THEN mark_count[i] ELSE 0]
    /\ last_delay' = [i \in 1..Len(store'.outbox) |->
                        IF i \in DOMAIN last_delay THEN last_delay[i] ELSE 0]
    /\ UNCHANGED <<tx, commits, last_commit, outboxVars, canon_rate_limiter,
                   buckets, solo, admitted, vec, restVars>>

Respond(r) ==
    /\ reqs[r].pc = "respond"
    /\ reqs' = [reqs EXCEPT ![r] =
            [@ EXCEPT !.pc = "done", !.resp = chip_response(reqs[r].result)]]
    /\ UNCHANGED <<storeVars, outboxVars, canon_rate_limiter, buckets, solo,
                   admitted, vec, restVars>>

\* a cancelled request rolls its WF commit back
cancel_rolls_back(s, req, cid) ==
    IF req.trace # <<>> /\ req.trace[Len(req.trace)] = "WF"
    THEN [s EXCEPT !.receipts = [c \in DOMAIN s.receipts \ {cid} |-> s.receipts[c]],
                   !.idem = [k \in {x \in DOMAIN s.idem : s.idem[x] # cid} |-> s.idem[k]]]
    ELSE s

\* what the drop of a request's future does to the store: nothing; a
\* transaction that has committed stays committed
cancel_effect(s, req, cid) == s

\* the client disconnects or the outer timeout fires: the future of the
\* request is dropped where it waits, and no answer is sent
Cancel(r) ==
    /\ reqs[r].pc # "done"
    /\ store' = cancel_effect(store, reqs[r], StageCid(r, 3))
    /\ reqs' = [reqs EXCEPT ![r] = [@ EXCEPT !.pc = "done", !.resp = NoResponse]]
    /\ UNCHANGED <<tx, commits, last_commit, mark_count, last_delay, outboxVars,
                   canon_rate_limiter, buckets, solo, admitted, vec, restVars>>

\* time passes between two requests
RateTick(d) ==
    /\ canon_rate_limiter # 0
    /\ \E r \in Arrived : reqs[r].pc = "rate"
    /\ \E key \in DOMAIN buckets : InWindow(buckets[key]) # <<>>
    /\ buckets' = [key \in DOMAIN buckets |-> Older(buckets[key], d)]
    /\ solo' = [fp \in DOMAIN solo |-> Older(solo[fp], d)]
    /\ admitted' = [fp \in DOMAIN admitted |-> InWindow(Older(admitted[fp], d))]
    /\ UNCHANGED <<storeVars, outboxVars, reqs, canon_rate_limiter, vec, restVars>>

\* ------------------------------------------------------------------------
\* execute_vector: the driver of the conformance vectors runs CHECK and TR

NoObservation == [decision |-> None, code |-> None]
IdleVector == [pc |-> "idle", chip |-> NoChip, decision |-> None,
               trace |-> <<>>, obs |-> NoObservation]

\* the driver never returns early
vector_denied_never(decision) == FALSE

\* the driver returns early on every decision but Allow
vector_denied_unless_allow(decision) == decision # "Allow"

\* matches!(check.decision, Decision::Deny)
vector_denied(decision) == decision = "Deny"

VectorStart(chip) ==
    /\ vec.pc \in {"idle", "done"}
    /\ reqs = <<>>
    /\ vec' = [IdleVector EXCEPT !.pc = "check", !.chip = chip]
    /\ UNCHANGED <<storeVars, outboxVars, reqs, canon_rate_limiter, buckets,
                   solo, admitted, restVars>>

VectorCheck ==
    /\ vec.pc = "check"
    /\ LET decision == PolicyDecision(vec.chip) IN
       IF vector_denied(decision)
       THEN vec' = [vec EXCEPT !.pc = "done", !.decision = decision,
                        !.trace = Append(@, "CHECK"),
                        !.obs = [decision |-> "deny", code |-> "POLICY_DENIED"]]
       ELSE vec' = [vec EXCEPT !.pc = "tr", !.decision = decision,
                        !.trace = Append(@, "CHECK")]
    /\ UNCHANGED <<storeVars, outboxVars, reqs, canon_rate_limiter, buckets,
                   solo, admitted, restVars>>

VectorTransition ==
    /\ vec.pc = "tr"
    /\ \E ok \in BOOLEAN :
        vec' = [vec EXCEPT !.pc = "done", !.trace = Append(@, "TR"),
                   !.obs = IF ok THEN [decision |-> "allow", code |-> "OK"]
                           ELSE [decision |-> "deny", code |-> "PIPELINE_ERROR"]]
    /\ UNCHANGED <<storeVars, outboxVars, reqs, canon_rate_limiter, buckets,
                   solo, admitted, restVars>>

VectorReturn ==
    /\ vec.pc = "done"
    /\ vec' = IdleVector
    /\ UNCHANGED <<storeVars, outboxVars, reqs, canon_rate_limiter, buckets,
                   solo, admitted, restVars>>

\* ------------------------------------------------------------------------
\* Receipt model: the stage chain of a UnifiedReceipt (spec 4.5, 4.13)

MaxStages == 3

StageLabels == <<"WA", "CHECK", "TR", "WF">>

\* the fields of a stage entry as they are persisted
StageFields ==
    {"stage", "timestamp", "input_cid", "output_cid", "fuel_used", "policy_trace",
     "vm_sig", "vm_sig_payload_cid", "auth_token", "duration_ms"}

\* the token before the first stage: the empty string
NoToken == <<>>

\* HMAC-SHA256 under the process-wide stage secret: a token is determined by,
\* and determines, what was fed to the HMAC
Hmac(stage, prev_token, input_cid, output_cid) ==
    <<"hmac", stage, prev_token, input_cid, output_cid>>

\* auth_token_i = HMAC(key, stage_label_i || prev_token || input_cid_i || output_cid_i)
auth_token(prev_token, e) == Hmac(e.stage, prev_token, e.input_cid, e.output_cid)

\* the entry the pipeline hands to append_stage for its n-th stage; a stage
\* may have no output
StageExecution(n, has_output) ==
    [stage |-> StageLabels[n], timestamp |-> "t0", input_cid |-> "b3:in",
     output_cid |-> IF has_output THEN "b3:out" ELSE "null", fuel_used |-> "null",
     policy_trace |-> "[]", vm_sig |-> "null", vm_sig_payload_cid |-> "null",
     auth_token |-> NoToken, duration_ms |-> "1"]

LastToken(stages) ==
    IF stages = <<>> THEN NoToken ELSE stages[Len(stages)].auth_token

\* append_stage computes the token of the entry and stores the entry
append_stage(stages, e) ==
    Append(stages, [e EXCEPT !.auth_token = auth_token(LastToken(stages), e)])

\* verify_auth_chain walks the stages and recomputes each token
verify_auth_chain(stages) ==
    \A i \in 1..Len(stages) :
        stages[i].auth_token =
            auth_token(IF i = 1 THEN NoToken ELSE stages[i - 1].auth_token, stages[i])

\* a value of the field that differs from the stored one
OtherValue(field, value) ==
    IF field = "auth_token" THEN <<"hmac", "00000000000000000000000000000000">>
    ELSE IF field = "stage" THEN (IF value = "WF" THEN "WA" ELSE "WF")
    ELSE IF value = "changed" THEN "changed-again" ELSE "changed"

SetField(e, field, value) ==
    [f \in DOMAIN e |-> IF f = field THEN value ELSE e[f]]

RemoveAt(q, i) == [k \in 1..(Len(q) - 1) |-> IF k < i THEN q[k] ELSE q[k + 1]]
InsertAt(q, i, x) ==
    [k \in 1..(Len(q) + 1) |-> IF k < i THEN q[k] ELSE IF k = i THEN x ELSE q[k - 1]]
SwapAt(q, i, j) ==
    [k \in 1..Len(q) |-> IF k = i THEN q[j] ELSE IF k = j THEN q[i] ELSE q[k]]

\* the entries someone without the stage secret can insert: a copy of a stored
\* entry, or an entry with a token of their own
InsertableEntries(stages) ==
    {stages[k] : k \in 1..Len(stages)}
        \cup {[StageExecution(1, TRUE) EXCEPT !.auth_token = OtherValue("auth_token", NoToken)]}

NoChange == [kind |-> "none", at |-> 0, field |-> "none", stages |-> <<>>]

\* UnifiedReceipt::append_stage, called by the pipeline stage after stage
AppendStage(has_output) ==
    /\ altered.kind = "none"
    /\ Len(receipt) < MaxStages
    /\ receipt' = append_stage(receipt, StageExecution(Len(receipt) + 1, has_output))
    /\ UNCHANGED <<storeVars, outboxVars, gateVars, altered, readVars, knockVars, authVars, eventVars, pureVars, mcpVars>>

\* the persisted JSON of the receipt is changed in one field of one stage
ChangeField(i, field) ==
    /\ altered.kind = "none"
    /\ i \in 1..Len(receipt)
    /\ altered' = [kind |-> "field", at |-> i, field |-> field,
                   stages |-> [receipt EXCEPT ![i] =
                        SetField(@, field, OtherValue(field, receipt[i][field]))]]
    /\ UNCHANGED <<storeVars, outboxVars, gateVars, receipt, readVars, knockVars, authVars, eventVars, pureVars, mcpVars>>

ReorderStages(i, j) ==
    /\ altered.kind = "none"
    /\ i \in 1..Len(receipt) /\ j \in 1..Len(receipt) /\ i < j
    /\ altered' = [kind |-> "reorder", at |-> i, field |-> "none",
                   stages |-> SwapAt(receipt, i, j)]
    /\ UNCHANGED <<storeVars, outboxVars, gateVars, receipt, readVars, knockVars, authVars, eventVars, pureVars, mcpVars>>

RemoveStage(i) ==
    /\ altered.kind = "none"
    /\ i \in 1..Len(receipt)
    /\ altered' = [kind |-> "remove", at |-> i, field |-> "none",
                   stages |-> RemoveAt(receipt, i)]
    /\ UNCHANGED <<storeVars, outboxVars, gateVars, receipt, readVars, knockVars, authVars, eventVars, pureVars, mcpVars>>

InsertStage(i, e) ==
    /\ altered.kind = "none"
    /\ i \in 1..(Len(receipt) + 1)
    /\ altered' = [kind |-> "insert", at |-> i, field |-> "none",
                   stages |-> InsertAt(receipt, i, e)]
    /\ UNCHANGED <<storeVars, outboxVars, gateVars, receipt, readVars, knockVars, authVars, eventVars, pureVars, mcpVars>>

\* ------------------------------------------------------------------------
\* Knock: validation of the raw inbound bytes (spec 4.3, knock_vector_matrix.rs)

Roots == {"object", "non_object", "malformed"}

\* the code of an integer outside i64, one of the three the contract allows
BigIntCodes == {"KNOCK-008", "KNOCK-010", "KNOCK-011"}

\* what the checks of knock see in the raw bytes
KnockInputs ==
    [utf8 : BOOLEAN, root : Roots, duplicate_key : BOOLEAN, too_deep : BOOLEAN,
     array_too_long : BOOLEAN, envelope_missing : BOOLEAN, raw_float : BOOLEAN,
     big_int : BOOLEAN, bad_num_atom : BOOLEAN, control_char : BOOLEAN,
     big_int_code : BigIntCodes]

\* bytes that are not UTF-8 are no JSON text, and without an integer outside
\* i64 its code plays no part
WellFormedInput(b) ==
    /\ ~b.utf8 => /\ b.root = "malformed"
                  /\ ~b.duplicate_key /\ ~b.too_deep /\ ~b.array_too_long
                  /\ ~b.envelope_missing /\ ~b.raw_float /\ ~b.big_int
                  /\ ~b.bad_num_atom /\ ~b.control_char
    /\ ~b.big_int => b.big_int_code = "KNOCK-008"

KnockOk == "ok"

\* the vector valid_minimal of the matrix
ValidMinimal ==
    [utf8 |-> TRUE, root |-> "object", duplicate_key |-> FALSE, too_deep |-> FALSE,
     array_too_long |-> FALSE, envelope_missing |-> FALSE, raw_float |-> FALSE,
     big_int |-> FALSE, bad_num_atom |-> FALSE, control_char |-> FALSE,
     big_int_code |-> "KNOCK-008"]

\* the envelope fields are checked before anything else of the parsed value
knock_envelope_first(b) ==
    IF ~b.utf8 THEN "KNOCK-005"
    ELSE IF b.root = "non_object" THEN "KNOCK-007"
    ELSE IF b.root = "malformed" THEN "KNOCK-010"
    ELSE IF b.envelope_missing THEN "KNOCK-006"
    ELSE IF b.duplicate_key THEN "KNOCK-004"
    ELSE IF b.too_deep THEN "KNOCK-002"
    ELSE IF b.array_too_long THEN "KNOCK-003"
    ELSE IF b.raw_float THEN "KNOCK-008"
    ELSE IF b.big_int THEN b.big_int_code
    ELSE IF b.bad_num_atom THEN "KNOCK-009"
    ELSE IF b.control_char THEN "KNOCK-011"
    ELSE KnockOk

\* ubl_runtime::knock::knock: the checks in their order, the first failure wins
knock(b) ==
    IF ~b.utf8 THEN "KNOCK-005"
    ELSE IF b.root = "non_object" THEN "KNOCK-007"
    ELSE IF b.root = "malformed" THEN "KNOCK-010"
    ELSE IF b.duplicate_key THEN "KNOCK-004"
    ELSE IF b.too_deep THEN "KNOCK-002"
    ELSE IF b.array_too_long THEN "KNOCK-003"
    ELSE IF b.envelope_missing THEN "KNOCK-006"
    ELSE IF b.raw_float THEN "KNOCK-008"
    ELSE IF b.big_int THEN b.big_int_code
    ELSE IF b.bad_num_atom THEN "KNOCK-009"
    ELSE IF b.control_char THEN "KNOCK-011"
    ELSE KnockOk

\* utils.rs knock_reason_code: the text of the error up to its first colon
knock_reason_code(err) == err

NoKnock == <<>>

\* the test drives knock with the next vector
KnockVector(b) ==
    /\ knock_out # NoKnock
    /\ WellFormedInput(b)
    /\ knock_in' = b
    /\ knock_out' = NoKnock
    /\ UNCHANGED notKnockVars

\* knock(&bytes)
KnockRun ==
    /\ knock_out = NoKnock
    /\ knock_out' = <<knock_reason_code(knock(knock_in))>>
    /\ UNCHANGED <<notKnockVars, knock_in>>

\* ------------------------------------------------------------------------
\* Write entries of the gate: knock and authorization before the rate limit
\* (chip.rs submit_chip_bytes 22-197, mcp.rs, registry.rs registry_kat_test)

MaxWrites == 1

\* the writes followed through a gate whose rate limiter is on
MaxGatedWrites == 3
MaxClock == 2

\* str::trim and trim_end_matches('/') on a text given by its characters
RECURSIVE TrimStart(_)
TrimStart(t) == IF t # <<>> /\ t[1] = " " THEN TrimStart(Tail(t)) ELSE t

RECURSIVE TrimEnd(_, _)
TrimEnd(t, ch) ==
    IF t # <<>> /\ t[Len(t)] = ch THEN TrimEnd(SubSeq(t, 1, Len(t) - 1), ch) ELSE t

Trim(t) == TrimEnd(TrimStart(t), " ")

\* str::strip_prefix: the rest of the text after the prefix, if it starts with it
StartsWith(t, prefix) ==
    Len(prefix) <= Len(t) /\ SubSeq(t, 1, Len(prefix)) = prefix

\* the characters of the worlds in use
WorldText(world) ==
    CASE world = "a/p" -> <<"a", "/", "p">>
      [] world = "a/p/t" -> <<"a", "/", "p", "/", "t">>
      [] world = "a/pub" -> <<"a", "/", "p", "u", "b">>
      [] world = "a/p/ " -> <<"a", "/", "p", "/", " ">>
      [] world = "*" -> <<"*">>
      [] OTHER -> <<>>

\* a plain prefix is taken for containment
world_scope_allows_plain_prefix(scope_world, target_world) ==
    LET scope == TrimEnd(Trim(scope_world), "/")
        target == TrimEnd(Trim(target_world), "/")
    IN  IF scope = <<>> \/ target = <<>> THEN FALSE
        ELSE IF scope = <<"*">> THEN TRUE
        ELSE StartsWith(target, scope)

\* utils.rs world_scope_allows, on the characters of the two worlds
world_scope_allows_text(scope_world, target_world) ==
    LET scope == TrimEnd(Trim(scope_world), "/")
        target == TrimEnd(Trim(target_world), "/")
    IN  IF scope = <<>> \/ target = <<>> THEN FALSE
        ELSE IF scope = <<"*">> THEN TRUE
        ELSE IF target = scope THEN TRUE
        ELSE /\ StartsWith(target, scope)
             /\ StartsWith(SubSeq(target, Len(scope) + 1, Len(target)), <<"/">>)

world_scope_allows(scope_world, target_world) ==
    world_scope_allows_text(WorldText(scope_world), WorldText(target_world))

\* utils.rs scope_allows_any
scope_allows_any(scope, required) == "*" \in scope \/ scope \cap required # {}

\* the chips written in the tests of the write policy
ChipPrivate == [type |-> "ubl/document", ver |-> "1.0", world |-> "a/p/t", hash |-> "h-p"]
ChipPublic == [type |-> "ubl/document", ver |-> "1.0", world |-> "a/pub", hash |-> "h-u"]
ChipOnboard == [type |-> "ubl/user", ver |-> "1.0", world |-> "a/p/t", hash |-> "h-o"]

\* a raw body: its bytes, what knock sees in them, and the chip it holds
BodyOf(chip) == [bytes |-> chip.hash, seen |-> ValidMinimal, chip |-> chip]
BodyInvalid ==
    [bytes |-> "{invalid", seen |-> [ValidMinimal EXCEPT !.root = "malformed"],
     chip |-> NoChip]
WriteBodies == {BodyOf(ChipPrivate), BodyOf(ChipPublic), BodyOf(ChipOnboard), BodyInvalid}

\* ubl/token chips of the chip store
TokWrite ==
    [id |-> "tok-write", cid |-> "b3:tok-write", world |-> "a/p", scope |-> {"write"},
     user_cid |-> "b3:user-a", expires_at |-> MaxClock]
TokPub ==
    [id |-> "tok-pub", cid |-> "b3:tok-pub", world |-> "a/pub", scope |-> {"write"},
     user_cid |-> "b3:user-b", expires_at |-> MaxClock]
TokRead ==
    [id |-> "tok-read", cid |-> "b3:tok-read", world |-> "a/p/ ", scope |-> {"read"},
     user_cid |-> "b3:user-b", expires_at |-> MaxClock]
TokenChips == {TokWrite, TokPub, TokRead}

\* the cids a ubl/revoke chip is aimed at
RevokeTargets == {"b3:tok-write", "b3:user-a"}

\* what a request presents: nothing, an Authorization header with an API key
\* or with a bearer token, and with the latter perhaps an X-API-Key header
NoCred == [kind |-> "none", value |-> "none", x_api_key |-> "none"]
Creds ==
    {NoCred}
        \cup [kind : {"api_key"}, value : {"k-test", "k-bad"}, x_api_key : {"none"}]
        \cup [kind : {"bearer"},
              value : {"tok-write", "tok-pub", "tok-read", "tok-unknown"},
              x_api_key : {"none", "k-test"}]

\* WriteAccessPolicy as the tests configure it
PublicWorlds == {"a/pub"}
PublicTypes == {"ubl/document"}
WritePolicies == [auth_required : BOOLEAN, api_keys : {{}, {"k-test"}}]

\* WriteAccessPolicy::open_for_tests
OpenForTests == [auth_required |-> FALSE, api_keys |-> {}]

\* ubl_runtime::auth::is_onboarding_type
OnboardingTypes == {"ubl/user"}
is_onboarding_type(chip_type) == chip_type \in OnboardingTypes

\* state.rs WriteAccessPolicy::allows_public_unauthenticated
allows_public_unauthenticated(chip_type, world) ==
    \/ is_onboarding_type(chip_type)
    \/ world \in PublicWorlds /\ chip_type \in PublicTypes

\* utils.rs extract_api_key: the X-API-Key header, else the token of an
\* Authorization header of scheme ApiKey, Api-Key or Bearer
extract_api_key(cred) ==
    IF cred.x_api_key # "none" THEN Some(cred.x_api_key)
    ELSE IF cred.kind \in {"api_key", "bearer"} THEN Some(cred.value)
    ELSE NoValue

\* state.rs WriteAccessPolicy::matches_api_key
matches_api_key(policy, cred) ==
    /\ extract_api_key(cred) # NoValue
    /\ extract_api_key(cred)[1] \in policy.api_keys

\* state.rs WriteAccessPolicy::authorize_write
authorize_write(policy, cred, chip_type, world) ==
    IF ~policy.auth_required /\ policy.api_keys = {} THEN "ok"
    ELSE IF matches_api_key(policy, cred) THEN "ok"
    ELSE IF allows_public_unauthenticated(chip_type, world) THEN "ok"
    ELSE "UNAUTHORIZED"

\* the chip-store queries of resolve_session_bearer may fail
QueryOutcomes == {"ok", "token_query_fails", "revoke_query_fails"}

NoAuth == [ok |-> FALSE, token |-> <<>>, err |-> "none"]

\* utils.rs resolve_session_bearer, for a request that carries a bearer token
resolve_session_bearer(cred, queries, revoke_index, clock) ==
    LET found == {t \in TokenChips : t.id = cred.value} IN
    IF queries = "token_query_fails" THEN [NoAuth EXCEPT !.err = "token query failed"]
    ELSE IF found = {} THEN [NoAuth EXCEPT !.err = "token not found"]
    ELSE LET t == CHOOSE t \in found : TRUE
             revoked_q(cid) == queries # "revoke_query_fails" /\ cid \in revoke_index
         IN  IF t.expires_at <= clock THEN [NoAuth EXCEPT !.err = "token expired"]
             ELSE IF revoked_q(t.cid) THEN [NoAuth EXCEPT !.err = "token revoked"]
             ELSE IF revoked_q(t.user_cid) THEN [NoAuth EXCEPT !.err = "token user revoked"]
             ELSE [ok |-> TRUE, token |-> <<t>>, err |-> "none"]

\* ErrorCode::http_status of the codes of a denied write
deny_http_status(code) ==
    IF code = "UNAUTHORIZED" THEN 401
    ELSE IF code = "POLICY_DENIED" THEN 403
    ELSE IF code = "KNOCK_REJECTED" THEN 422
    ELSE 500

NoWriteResponse ==
    [status |-> 0, code |-> "none", decision |-> "none", receipt_cid |-> <<>>,
     knock_cid |-> <<>>]

\* the receipt process_knock_rejection stores for the w-th write
DenyReceipt(w, knock_cid, reason_code) ==
    [cid |-> <<"b3-deny", w>>, type |-> "ubl/knock.deny.v1", decision |-> "Deny",
     knock_cid |-> knock_cid, code |-> reason_code]

\* the deny receipt is stored but the answer does not carry it
deny_response_bare(code, stored, rcpt) ==
    IF stored
    THEN [NoWriteResponse EXCEPT !.status = deny_http_status(code), !.code = code]
    ELSE [NoWriteResponse EXCEPT !.status = 500, !.code = "INTERNAL_ERROR"]

\* the answer built from the result of process_knock_rejection: the deny
\* answer with its receipt, or the error of the pipeline
deny_response(code, stored, rcpt) ==
    IF stored
    THEN [status |-> deny_http_status(code), code |-> code, decision |-> "Deny",
          receipt_cid |-> <<rcpt.cid>>, knock_cid |-> <<rcpt.knock_cid>>]
    ELSE [NoWriteResponse EXCEPT !.status = 500, !.code = "INTERNAL_ERROR"]

\* the outcome of the authorization block of submit_chip_bytes (chip.rs 84-197):
\* the code it denies with, or "ok", and the token that authorized the write
authorize(policy, cred, chip, queries, revoke_index, clock) ==
    LET resolved == resolve_session_bearer(cred, queries, revoke_index, clock)
        later == authorize_write(policy, cred, chip.type, chip.world)
    IN  IF cred.kind = "bearer"
        THEN IF ~resolved.ok THEN [code |-> "UNAUTHORIZED", token |-> <<>>]
             ELSE IF ~scope_allows_any(resolved.token[1].scope,
                                       {"write", "chip:write", "mcp:write"})
             THEN [code |-> "POLICY_DENIED", token |-> <<>>]
             ELSE IF ~world_scope_allows(resolved.token[1].world, chip.world)
             THEN [code |-> "POLICY_DENIED", token |-> <<>>]
             ELSE [code |-> "ok", token |-> resolved.token]
        ELSE [code |-> later, token |-> <<>>]

Routes == {"chips", "mcp_rpc", "mcp_ws", "kat"}

\* every route is taken for a trusted one
trusted_write_always(route) == TRUE

\* whether the route calls submit_chip_bytes with trusted_write
trusted_write(route) == route \in {"mcp_ws", "kat"}

NoSession == <<>>

\* a write at its arrival
NewWrite(route, body, cred) ==
    [route |-> route, body |-> body, cred |-> cred, pc |-> "knock",
     knock_cid |-> knock_cid_from_bytes(body.bytes),
     session |-> IF route = "mcp_ws" THEN session ELSE NoSession,
     stale |-> FALSE, expired |-> FALSE, token_revoked |-> FALSE, knocked |-> FALSE, auth_checked |-> FALSE, token |-> <<>>,
     req |-> 0, resp |-> NoWriteResponse]

Written == DOMAIN writes

\* whether the token is expired or revoked in the chip store
Stale(token) ==
    \/ token.expires_at <= now
    \/ token.cid \in revoked
    \/ token.user_cid \in revoked

\* the token a write relies on when it arrives: the bearer it presents or the
\* token of its WebSocket session
PresentedToken(route, cred) ==
    IF route = "mcp_ws" THEN session
    ELSE IF cred.kind = "bearer" /\ \E t \in TokenChips : t.id = cred.value
    THEN <<CHOOSE t \in TokenChips : t.id = cred.value>>
    ELSE <<>>

\* no write is on its way through the gate
Quiet ==
    /\ \A w \in Written : writes[w].pc = "done"
    /\ \A r \in Arrived : reqs[r].pc = "done"

\* mcp.rs mcp_ws_upgrade with validate_mcp_ws_bearer
WsUpgrade(cred, queries) ==
    /\ session = NoSession
    /\ Quiet
    /\ LET auth == resolve_session_bearer(cred, queries, revoked, now) IN
       session' =
           IF cred.kind # "bearer" \/ ~auth.ok THEN NoSession
           ELSE IF ~scope_allows_any(auth.token[1].scope, {"mcp", "read", "write", "mcp:write"})
           THEN NoSession
           ELSE auth.token
    /\ session' # NoSession
    /\ UNCHANGED <<notAuthVars, write_access_policy, revoked, now, writes, deny_receipts>>

\* a ubl/revoke chip aimed at the cid is stored
Revoke(target) ==
    /\ target \notin revoked
    /\ Quiet
    /\ revoked' = revoked \cup {target}
    /\ UNCHANGED <<notAuthVars, write_access_policy, now, session, writes, deny_receipts>>

\* time passes
ClockTick ==
    /\ now < MaxClock
    /\ Quiet
    /\ now' = now + 1
    /\ UNCHANGED <<notAuthVars, write_access_policy, revoked, session, writes, deny_receipts>>

\* a write arrives: chip.rs create_chip, mcp.rs dispatch_tool_call (ubl.deliver)
\* by POST /mcp/rpc or in a WebSocket session, registry.rs registry_kat_test.
\* In a session, handle_mcp_rpc_request answers a write tool call of a token
\* without write scope before the tool is dispatched.
WriteArrives(route, body, cred) ==
    /\ Len(writes) < (IF canon_rate_limiter = 0 THEN MaxWrites ELSE MaxGatedWrites)
    /\ Quiet
    /\ route = "mcp_ws" => session # NoSession
    /\ route \in {"mcp_ws", "kat"} => cred = NoCred
    /\ LET fresh == [NewWrite(route, body, cred) EXCEPT
                        !.stale = PresentedToken(route, cred) # <<>>
                                  /\ Stale(PresentedToken(route, cred)[1]),
                        !.expired = PresentedToken(route, cred) # <<>>
                                  /\ PresentedToken(route, cred)[1].expires_at <= now,
                        !.token_revoked = PresentedToken(route, cred) # <<>>
                                  /\ PresentedToken(route, cred)[1].cid \in revoked]
       IN  IF route = "mcp_ws" /\ ~scope_allows_any(session[1].scope, {"write", "mcp:write"})
           THEN writes' = Append(writes,
                    [fresh EXCEPT !.pc = "done",
                                  !.resp = [NoWriteResponse EXCEPT !.status = 200,
                                                                   !.code = "POLICY_DENIED"]])
           ELSE writes' = Append(writes, fresh)
    /\ UNCHANGED <<notAuthVars, write_access_policy, revoked, now, session, deny_receipts>>

\* chip.rs 30-80: knock on the raw body, and the deny receipt of a failure
KnockBody(w, stored) ==
    /\ writes[w].pc = "knock"
    /\ LET e == knock(writes[w].body.seen)
           rcpt == DenyReceipt(w, writes[w].knock_cid, knock_reason_code(e))
       IN  IF e # KnockOk
           THEN /\ writes' = [writes EXCEPT ![w] =
                        [@ EXCEPT !.pc = "done", !.knocked = TRUE,
                                  !.resp = deny_response("KNOCK_REJECTED", stored, rcpt)]]
                /\ deny_receipts' = IF stored THEN deny_receipts \cup {rcpt} ELSE deny_receipts
           ELSE /\ stored
                /\ writes' = [writes EXCEPT ![w] =
                        [@ EXCEPT !.knocked = TRUE,
                                  !.pc = IF trusted_write(writes[w].route)
                                         THEN "admit" ELSE "auth"]]
                /\ UNCHANGED deny_receipts
    /\ UNCHANGED <<notAuthVars, write_access_policy, revoked, now, session>>

\* chip.rs 84-197: the authorization of a write that is not trusted, with
\* deny_write_with_receipt (utils.rs 205-259) on a denial
Authorize(w, queries, stored) ==
    /\ writes[w].pc = "auth"
    /\ LET a == authorize(write_access_policy, writes[w].cred, writes[w].body.chip,
                          queries, revoked, now)
           rcpt == DenyReceipt(w, writes[w].knock_cid, a.code)
       IN  IF a.code # "ok"
           THEN /\ writes' = [writes EXCEPT ![w] =
                        [@ EXCEPT !.pc = "done", !.auth_checked = TRUE,
                                  !.resp = deny_response(a.code, stored, rcpt)]]
                /\ deny_receipts' = IF stored THEN deny_receipts \cup {rcpt} ELSE deny_receipts
           ELSE /\ stored /\ (writes[w].cred.kind # "bearer" => queries = "ok")
                /\ writes' = [writes EXCEPT ![w] =
                        [@ EXCEPT !.pc = "admit", !.auth_checked = TRUE, !.token = a.token]]
                /\ UNCHANGED deny_receipts
    /\ UNCHANGED <<notAuthVars, write_access_policy, revoked, now, session>>

\* chip.rs 199-: the write goes on to the rate limiter and the pipeline
Admit(w) ==
    /\ writes[w].pc = "admit"
    /\ vec.pc = "idle"
    /\ writes' = [writes EXCEPT ![w] = [@ EXCEPT !.pc = "done", !.req = Len(reqs) + 1]]
    /\ reqs' = Append(reqs,
            [NewRequest EXCEPT !.chip = writes[w].body.chip,
                               !.knock_cid = Some(writes[w].knock_cid),
                               !.after = {q \in Arrived : reqs[q].pc = "done"}])
    /\ UNCHANGED <<storeVars, outboxVars, canon_rate_limiter, buckets, solo, admitted,
                   vec, chainVars, readVars, knockVars, eventVars, pureVars, mcpVars,
                   write_access_policy,
                   revoked,
                   now, session, deny_receipts>>

\* ------------------------------------------------------------------------
\* Read paths of stored receipts (receipt.rs, chip.rs verify_chip, mcp.rs)

\* the JSON stored in the durable store under the receipt's cid
StoredStages == IF altered.kind = "none" THEN receipt ELSE altered.stages

\* utils.rs verify_receipt_auth_chain: the stored JSON must parse as a
\* UnifiedReceipt and its chain must verify
verify_receipt_auth_chain ==
    IF altered.kind = "unparsable" THEN "TAMPER_DETECTED"
    ELSE IF ~verify_auth_chain(StoredStages) THEN "TAMPER_DETECTED"
    ELSE "ok"

\* ErrorCode::http_status of the codes the read paths answer with
read_http_status(code) ==
    IF code = "TAMPER_DETECTED" THEN 422
    ELSE IF code = "INVALID_CID" THEN 400
    ELSE IF code = "NOT_FOUND" THEN 404
    ELSE IF code = "UNAVAILABLE" THEN 503
    ELSE IF code = "INTERNAL_ERROR" THEN 500
    ELSE 200

Lookups == {"some", "none", "err"}
CidForms == {"b3", "other"}

HttpRoutes == {"get_receipt", "get_receipt_public_url", "get_receipt_trace", "verify_chip"}
McpRoutes == {"ubl.receipt", "ubl.receipt.trace"}

NoRead == [route |-> "none", status |-> 0, code |-> "none", body |-> "none",
           fetched |-> FALSE, chain |-> "ok"]

\* an answer of a read path; fetched tells that the handler read the stored
\* receipt, and chain what verify_receipt_auth_chain makes of it at that time
Answer(route, status, code, body, fetched) ==
    [route |-> route, status |-> status, code |-> code, body |-> body,
     fetched |-> fetched, chain |-> verify_receipt_auth_chain]

HttpError(route, code, fetched) ==
    Answer(route, read_http_status(code), code, "error", fetched)

\* a JSON-RPC error: HTTP 200 with an error member
McpError(route, code, fetched) == Answer(route, 200, code, "error", fetched)

\* mcp.rs dispatch_tool_call, "ubl.receipt"
receipt_tool(lookup) ==
    IF ~durable_store THEN McpError("ubl.receipt", "-32000", FALSE)
    ELSE IF lookup = "some" THEN Answer("ubl.receipt", 200, "none", "receipt", TRUE)
    ELSE IF lookup = "none" THEN McpError("ubl.receipt", "-32004", FALSE)
    ELSE McpError("ubl.receipt", "-32603", FALSE)

\* the chip-store half of the two trace paths
trace_from_chip_store(route, chip, fetched) ==
    IF chip = "some" THEN Answer(route, 200, "none", "trace", fetched)
    ELSE IF route \in McpRoutes
    THEN McpError(route, IF chip = "none" THEN "-32004" ELSE "-32603", fetched)
    ELSE HttpError(route, IF chip = "none" THEN "NOT_FOUND" ELSE "INTERNAL_ERROR", fetched)

\* receipt.rs get_receipt
GetReceipt(cid, if_none_match, lookup) ==
    /\ read' =
        IF cid # "b3" THEN HttpError("get_receipt", "INVALID_CID", FALSE)
        ELSE IF if_none_match THEN Answer("get_receipt", 304, "none", "null", FALSE)
        ELSE IF ~durable_store THEN HttpError("get_receipt", "UNAVAILABLE", FALSE)
        ELSE IF lookup = "some" THEN
            IF verify_receipt_auth_chain # "ok"
            THEN HttpError("get_receipt", verify_receipt_auth_chain, TRUE)
            ELSE Answer("get_receipt", 200, "none", "receipt", TRUE)
        ELSE IF lookup = "none" THEN HttpError("get_receipt", "NOT_FOUND", FALSE)
        ELSE HttpError("get_receipt", "INTERNAL_ERROR", FALSE)
    /\ UNCHANGED <<notReadVars, durable_store>>

\* receipt.rs get_receipt_public_url
GetReceiptPublicUrl(cid, lookup, link) ==
    /\ read' =
        IF cid # "b3" THEN HttpError("get_receipt_public_url", "INVALID_CID", FALSE)
        ELSE IF ~durable_store THEN HttpError("get_receipt_public_url", "UNAVAILABLE", FALSE)
        ELSE IF lookup = "some" THEN
            IF verify_receipt_auth_chain # "ok"
            THEN HttpError("get_receipt_public_url", verify_receipt_auth_chain, TRUE)
            ELSE IF link THEN Answer("get_receipt_public_url", 200, "none", "receipt.url", TRUE)
            ELSE HttpError("get_receipt_public_url", "INTERNAL_ERROR", TRUE)
        ELSE IF lookup = "none" THEN HttpError("get_receipt_public_url", "NOT_FOUND", FALSE)
        ELSE HttpError("get_receipt_public_url", "INTERNAL_ERROR", FALSE)
    /\ UNCHANGED <<notReadVars, durable_store>>

\* receipt.rs get_receipt_trace
GetReceiptTrace(lookup, chip) ==
    /\ read' =
        IF durable_store /\ lookup = "some" /\ verify_receipt_auth_chain # "ok"
        THEN HttpError("get_receipt_trace", verify_receipt_auth_chain, TRUE)
        ELSE IF durable_store /\ lookup = "none"
        THEN HttpError("get_receipt_trace", "NOT_FOUND", FALSE)
        ELSE IF durable_store /\ lookup = "err"
        THEN HttpError("get_receipt_trace", "INTERNAL_ERROR", FALSE)
        ELSE trace_from_chip_store("get_receipt_trace", chip, durable_store)
    /\ UNCHANGED <<notReadVars, durable_store>>

\* chip.rs verify_chip
VerifyChip(cid, chip, has_receipt_cid, lookup) ==
    /\ read' =
        IF cid # "b3" THEN HttpError("verify_chip", "INVALID_CID", FALSE)
        ELSE IF chip = "none" THEN HttpError("verify_chip", "NOT_FOUND", FALSE)
        ELSE IF chip = "err" THEN HttpError("verify_chip", "INTERNAL_ERROR", FALSE)
        ELSE IF has_receipt_cid /\ durable_store /\ lookup = "some"
                /\ verify_receipt_auth_chain # "ok"
        THEN HttpError("verify_chip", verify_receipt_auth_chain, TRUE)
        ELSE IF has_receipt_cid /\ durable_store /\ lookup = "err"
        THEN HttpError("verify_chip", "INTERNAL_ERROR", FALSE)
        ELSE Answer("verify_chip", 200, "none", "chip.verification",
                    has_receipt_cid /\ durable_store /\ lookup = "some")
    /\ UNCHANGED <<notReadVars, durable_store>>

\* mcp.rs dispatch_tool_call, "ubl.receipt"
McpReceipt(has_cid, lookup) ==
    /\ read' = IF ~has_cid THEN McpError("ubl.receipt", "-32602", FALSE)
               ELSE receipt_tool(lookup)
    /\ UNCHANGED <<notReadVars, durable_store>>

\* mcp.rs dispatch_tool_call, "ubl.receipt.trace"
McpReceiptTrace(has_cid, lookup, chip) ==
    /\ read' =
        IF ~has_cid THEN McpError("ubl.receipt.trace", "-32602", FALSE)
        ELSE IF durable_store /\ lookup = "some" /\ verify_receipt_auth_chain # "ok"
        THEN McpError("ubl.receipt.trace", verify_receipt_auth_chain, TRUE)
        ELSE IF durable_store /\ lookup = "none"
        THEN McpError("ubl.receipt.trace", "-32004", FALSE)
        ELSE IF durable_store /\ lookup = "err"
        THEN McpError("ubl.receipt.trace", "-32603", FALSE)
        ELSE trace_from_chip_store("ubl.receipt.trace", chip, durable_store)
    /\ UNCHANGED <<notReadVars, durable_store>>

\* the stored JSON no longer parses as a UnifiedReceipt
CorruptJson ==
    /\ altered.kind = "none"
    /\ receipt # <<>>
    /\ altered' = [kind |-> "unparsable", at |-> 0, field |-> "none", stages |-> <<>>]
    /\ UNCHANGED <<storeVars, outboxVars, gateVars, receipt, readVars, knockVars, authVars, eventVars, pureVars, mcpVars>>

\* ------------------------------------------------------------------------
\* Event hub: broadcast channel, ingestion task, GET /v1/events (events.rs)

MaxEvents == 3
BusCapacity == 1

\* ReceiptEvent as the pipeline publishes it (the fields the hub reads)
EventWf ==
    [pipeline_stage |-> "wf", decision |-> Some("allow"),
     world |-> Some("a/acme/t/prod"), receipt_type |-> "ubl/user",
     actor |-> Some("did:key:z1#k1"), code |-> Some("ok"),
     receipt_cid |-> "b3:receipt-1", input_cid |-> Some("b3:in"),
     output_cid |-> Some("b3:receipt-1")]
EventCheck ==
    [pipeline_stage |-> "check", decision |-> Some("deny"),
     world |-> Some("a/acme/t/prod"), receipt_type |-> "ubl/user",
     actor |-> Some("did:key:z1#k1"), code |-> Some("check.policy.deny"),
     receipt_cid |-> "b3:receipt-2", input_cid |-> Some("b3:in"), output_cid |-> NoValue]
EventSystem ==
    [pipeline_stage |-> "write_finished", decision |-> NoValue,
     world |-> NoValue, receipt_type |-> "ubl/document",
     actor |-> NoValue, code |-> NoValue,
     receipt_cid |-> "b3:receipt-3", input_cid |-> NoValue, output_cid |-> NoValue]
ReceiptEvents == {EventWf, EventCheck, EventSystem}

to_ascii_lowercase(s) ==
    CASE s = "WF" -> "wf"
      [] s = "CHECK" -> "check"
      [] s = "Check" -> "check"
      [] s = "ALLOW" -> "allow"
      [] s = "DENY" -> "deny"
      [] s = "Deny" -> "deny"
      [] s = "Allow" -> "allow"
      [] s = "Require" -> "require"
      [] s = "REQUIRE" -> "require"
      [] s = "Advisory" -> "advisory"
      [] s = "ADVISORY" -> "advisory"
      [] OTHER -> s

to_ascii_uppercase(s) ==
    CASE to_ascii_lowercase(s) = "wf" -> "WF"
      [] to_ascii_lowercase(s) = "check" -> "CHECK"
      [] to_ascii_lowercase(s) = "allow" -> "ALLOW"
      [] to_ascii_lowercase(s) = "deny" -> "DENY"
      [] to_ascii_lowercase(s) = "require" -> "REQUIRE"
      [] to_ascii_lowercase(s) = "advisory" -> "ADVISORY"
      [] OTHER -> s

eq_ignore_ascii_case(a, b) == to_ascii_lowercase(a) = to_ascii_lowercase(b)

normalize_stage(stage) ==
    LET s == to_ascii_lowercase(stage) IN
    CASE s = "knock" -> "KNOCK"
      [] s \in {"wa", "write_ahead"} -> "WA"
      [] s = "check" -> "CHECK"
      [] s \in {"tr", "transition"} -> "TR"
      [] s \in {"wf", "write_finished"} -> "WF"
      [] s = "registry" -> "REGISTRY"
      [] OTHER -> to_ascii_uppercase(s)

unwrap_or(opt, default) == IF opt = NoValue THEN default ELSE opt[1]

\* the id takes the decision in as well
deterministic_event_id_with_decision(event, stage) ==
    "evt:" \o event.receipt_cid \o ":" \o stage \o ":" \o unwrap_or(event.decision, "")

\* format!("evt:{}:{}:{}:{}", ..): the four texts, each after a colon
deterministic_event_id(event, stage) ==
    "evt:" \o event.receipt_cid \o ":" \o stage \o ":"
        \o unwrap_or(event.input_cid, "") \o ":" \o unwrap_or(event.output_cid, "")

to_hub_event(event) ==
    [id |-> deterministic_event_id(event, normalize_stage(event.pipeline_stage)),
     world |-> IF event.world = NoValue THEN "a/system" ELSE event.world[1],
     stage |-> normalize_stage(event.pipeline_stage),
     chip_type |-> event.receipt_type,
     receipt_cid |-> event.receipt_cid,
     decision |-> IF event.decision = NoValue THEN NoValue
                  ELSE Some(to_ascii_uppercase(event.decision[1])),
     code |-> event.code,
     actor |-> event.actor]

\* EventStreamQuery: the filters of one GET /v1/events (since and limit absent)
NoFilters ==
    [world |-> NoValue, stage |-> NoValue, decision |-> NoValue, code |-> NoValue,
     chip_type |-> NoValue, actor |-> NoValue]
StreamQueries ==
    { NoFilters,
      [NoFilters EXCEPT !.world = Some("a/acme/t/prod")],
      [NoFilters EXCEPT !.stage = Some("check"), !.chip_type = Some("*")],
      [NoFilters EXCEPT !.decision = Some("Deny"), !.code = Some("check.policy.deny")],
      [world |-> Some("a/acme/t/prod"), stage |-> Some("check"),
       decision |-> Some("deny"), code |-> Some("check.policy.deny"),
       chip_type |-> Some("ubl/user"), actor |-> Some("did:key:z1#k1")],
      [NoFilters EXCEPT !.world = Some("a/system"), !.chip_type = Some("ubl/document")] }

hub_matches_world(event, query) ==
    ~(query.world # NoValue /\ event.world # query.world[1])

hub_matches_query(event, query) ==
    IF query.world # NoValue /\ event.world # query.world[1] THEN FALSE
    ELSE IF /\ query.stage # NoValue
            /\ event.stage # query.stage[1]
            /\ ~eq_ignore_ascii_case(event.stage, query.stage[1]) THEN FALSE
    ELSE IF /\ query.decision # NoValue
            /\ unwrap_or(event.decision, "") # query.decision[1]
            /\ ~eq_ignore_ascii_case(unwrap_or(event.decision, ""), query.decision[1])
         THEN FALSE
    ELSE IF query.code # NoValue /\ event.code # query.code THEN FALSE
    ELSE IF /\ query.chip_type # NoValue
            /\ query.chip_type[1] # "*"
            /\ event.chip_type # query.chip_type[1] THEN FALSE
    ELSE IF query.actor # NoValue /\ event.actor # query.actor THEN FALSE
    ELSE TRUE

\* EventStore::query: the stored events that match the query, oldest first
event_query_matches(event, db_query) ==
    /\ db_query.world # NoValue => event.world = db_query.world[1]
    /\ db_query.stage # NoValue => eq_ignore_ascii_case(event.stage, db_query.stage[1])
    /\ db_query.decision # NoValue =>
            /\ event.decision # NoValue
            /\ eq_ignore_ascii_case(event.decision[1], db_query.decision[1])
    /\ db_query.code # NoValue => event.code = db_query.code
    /\ db_query.chip_type # NoValue =>
            (db_query.chip_type[1] = "*" \/ event.chip_type = db_query.chip_type[1])
    /\ db_query.actor # NoValue => event.actor = db_query.actor

store_query(rows, db_query) ==
    SelectSeq(rows, LAMBDA event : event_query_matches(event, db_query))

\* tokio broadcast: what recv answers to a receiver whose next message is `next`
OldestRetained == Max(1, Len(event_bus.sent) - BusCapacity + 1)

recv(next) ==
    IF next < OldestRetained
    THEN [kind |-> "Lagged", next |-> OldestRetained]
    ELSE IF next <= Len(event_bus.sent)
    THEN [kind |-> "Ok", next |-> next + 1]
    ELSE IF event_bus.closed
    THEN [kind |-> "Closed", next |-> next]
    ELSE [kind |-> "Pending", next |-> next]

subscribe == Len(event_bus.sent) + 1

DropReasons == {"client_lagged", "hub_lagged", "serialize_error"}

NoStream ==
    [pc |-> "none", status |-> 0, query |-> NoFilters, rows |-> <<>>,
     historical |-> <<>>, next |-> 0, emitted |-> <<>>, lagged |-> 0,
     lagged_at |-> 0, closed |-> FALSE, received |-> 0]

Historical(event) == [origin |-> "historical", at |-> 0, event |-> event]
Live(at, event) == [origin |-> "live", at |-> at, event |-> event]

\* the pipeline publishes a receipt event on the bus
Publish(event) ==
    /\ ~event_bus.closed
    /\ Len(event_bus.sent) < MaxEvents
    /\ event_bus' = [event_bus EXCEPT !.sent = Append(@, event)]
    /\ UNCHANGED <<event_store, ingest, stream, events_stream_dropped, notEventVars>>

\* the pipeline, and with it the sender of the bus, is dropped
CloseBus ==
    /\ ~event_bus.closed
    /\ event_bus' = [event_bus EXCEPT !.closed = TRUE]
    /\ UNCHANGED <<event_store, ingest, stream, events_stream_dropped, notEventVars>>

\* one turn of the loop of the ingestion task; append_ok is what
\* append_event_json answers, and a failed append is logged and passed over
Ingest(append_ok) ==
    /\ event_store # NoValue
    /\ ingest.pc = "running"
    /\ LET r == recv(ingest.next) IN
        /\ r.kind # "Pending"
        /\ r.kind # "Ok" => append_ok
        /\ ingest' = [pc |-> IF r.kind = "Closed" THEN "ended" ELSE "running",
                      next |-> r.next,
                      append_failed |-> ingest.append_failed
                                        \/ (r.kind = "Ok" /\ ~append_ok)]
        /\ event_store' =
                IF r.kind = "Ok" /\ append_ok
                THEN Some(Append(event_store[1], to_hub_event(event_bus.sent[ingest.next])))
                ELSE event_store
        /\ events_stream_dropped' =
                IF r.kind = "Lagged"
                THEN [events_stream_dropped EXCEPT !["hub_lagged"] = @ + 1]
                ELSE events_stream_dropped
    /\ UNCHANGED <<event_bus, stream, notEventVars>>

\* GET /v1/events: the handler, up to the query of the event store
StreamEvents(query, query_ok) ==
    /\ stream.pc = "none"
    /\ stream' =
        IF event_store = NoValue
        THEN [NoStream EXCEPT !.pc = "refused", !.status = 503, !.query = query]
        ELSE IF ~query_ok
        THEN [NoStream EXCEPT !.pc = "refused", !.status = 500, !.query = query]
        ELSE LET historical == store_query(event_store[1], query) IN
             [NoStream EXCEPT !.pc = "subscribing",
                              !.query = query,
                              !.rows = event_store[1],
                              !.historical = historical,
                              !.received = Len(event_bus.sent)]
    /\ UNCHANGED <<event_bus, event_store, ingest, events_stream_dropped, notEventVars>>

\* the handler subscribes to the bus and answers with the stream
StreamSubscribe ==
    /\ stream.pc = "subscribing"
    /\ stream' = [stream EXCEPT
            !.pc = IF stream.historical = <<>> THEN "live" ELSE "historical",
            !.status = 200,
            !.next = subscribe]
    /\ UNCHANGED <<event_bus, event_store, ingest, events_stream_dropped, notEventVars>>

\* the stream yields the next historical event
StreamHistorical ==
    /\ stream.pc = "historical"
    /\ stream' = [stream EXCEPT
            !.emitted = Append(@, Historical(Head(stream.historical))),
            !.historical = Tail(@),
            !.pc = IF Tail(stream.historical) = <<>> THEN "live" ELSE "historical"]
    /\ UNCHANGED <<event_bus, event_store, ingest, events_stream_dropped, notEventVars>>

\* one turn of the live loop of the stream
StreamLive ==
    /\ stream.pc = "live"
    /\ LET r == recv(stream.next) IN
        /\ r.kind # "Pending"
        /\ stream' =
            IF r.kind = "Ok"
            THEN LET hub == to_hub_event(event_bus.sent[stream.next]) IN
                 [stream EXCEPT
                    !.next = r.next,
                    !.emitted = IF hub_matches_query(hub, stream.query)
                                THEN Append(@, Live(stream.next, hub)) ELSE @]
            ELSE IF r.kind = "Lagged"
            THEN [stream EXCEPT
                    !.next = r.next,
                    !.lagged = @ + 1,
                    !.lagged_at = IF stream.lagged = 0 THEN Len(stream.emitted) ELSE @]
            ELSE [stream EXCEPT !.pc = "ended", !.closed = TRUE]
        /\ events_stream_dropped' =
            IF r.kind = "Lagged"
            THEN [events_stream_dropped EXCEPT !["client_lagged"] = @ + 1]
            ELSE events_stream_dropped
    /\ UNCHANGED <<event_bus, event_store, ingest, notEventVars>>

\* the text of the cid of a receipt of the pipeline
receipt_cid_text(cid) == "b3:receipt-" \o ToString(cid)

\* the ReceiptEvent of the WF receipt of a request
wf_receipt_event(r) ==
    [pipeline_stage |-> "wf",
     decision |-> Some(IF reqs[r].short_circuited THEN "Deny" ELSE reqs[r].decision),
     world |-> Some(reqs[r].chip.world),
     receipt_type |-> reqs[r].chip.type,
     actor |-> NoValue,
     code |-> NoValue,
     receipt_cid |-> receipt_cid_text(StageCid(r, 3)),
     input_cid |-> NoValue,
     output_cid |-> Some(receipt_cid_text(StageCid(r, 3)))]

\* the pipeline publishes while WF is still to commit
emit_ready_before_commit(req) == req.pc = "wf"

\* the pipeline publishes the event of a receipt once WF has committed it
emit_ready(req) == req.trace # <<>> /\ req.trace[Len(req.trace)] = "WF"

\* process_chip_with_context publishes the receipt event of a request
EmitReceipt(r) ==
    /\ emit_ready(reqs[r])
    /\ ~event_bus.closed
    /\ \A at \in 1..Len(event_bus.sent) :
            event_bus.sent[at].receipt_cid # receipt_cid_text(StageCid(r, 3))
    /\ event_bus' = [event_bus EXCEPT !.sent = Append(@, wf_receipt_event(r))]
    /\ UNCHANGED <<event_store, ingest, stream, events_stream_dropped, notEventVars>>

\* ------------------------------------------------------------------------
\* state.rs McpTokenRateLimiter, called by the MCP tools/call handler

\* state.rs from_env: unwrap_or(120)
DefaultRpm == 120

McpTokenIds == {"tok-a", "tok-b"}

\* state.rs from_env: per_minute is at least 1, no bucket exists yet (a
\* token without a bucket is a token whose bucket is empty)
McpTokenRateLimiter(per_minute) ==
    [per_minute |-> IF per_minute < 1 THEN 1 ELSE per_minute,
     buckets |-> [token_id \in McpTokenIds |-> <<>>]]

\* state.rs check: while the front is a window or more old, pop it
RECURSIVE pop_expired(_, _)
pop_expired(bucket, at) ==
    IF bucket # <<>> /\ at - Head(bucket) >= WindowSecs
    THEN pop_expired(Tail(bucket), at)
    ELSE bucket

\* a limit that lets one call more through
is_limited_over(bucket, per_minute) == Len(bucket) > per_minute

\* state.rs check: bucket.len() >= self.per_minute
is_limited(bucket, per_minute) == Len(bucket) >= per_minute

\* state.rs check: window.saturating_sub(elapsed).as_secs().saturating_add(1)
retry_after_of(bucket, at) ==
    IF bucket = <<>> THEN 1
    ELSE (IF at - Head(bucket) >= WindowSecs THEN 0
          ELSE WindowSecs - (at - Head(bucket))) + 1

\* state.rs check on one bucket: the bucket it leaves and what it returns,
\* <<retry_after>> when limited
check(bucket, per_minute, at) ==
    LET live == pop_expired(bucket, at)
    IN  IF is_limited(live, per_minute)
        THEN [bucket |-> live, returned |-> Some(retry_after_of(live, at))]
        ELSE [bucket |-> Append(live, at), returned |-> NoValue]

InitPureVars == pure_in = <<>> /\ pure_out = <<>>

\* McpTokenRateLimiter::from_env with UBL_MCP_TOKEN_RPM unset, before any call
InitMcpVars ==
    /\ mcp_token_rate_limiter = McpTokenRateLimiter(DefaultRpm)
    /\ instant = 0
    /\ mcp_checks = <<>>

InitEventVars ==
    /\ event_bus = [sent |-> <<>>, closed |-> FALSE]
    /\ event_store = NoValue
    /\ ingest = [pc |-> "running", next |-> 1, append_failed |-> FALSE]
    /\ stream = NoStream
    /\ events_stream_dropped = [reason \in DropReasons |-> 0]

\* the parts outside the write path, before anything has run
InitChainVars == receipt = <<>> /\ altered = NoChange
InitReadVars == durable_store = TRUE /\ read = NoRead
InitKnockVars ==
    /\ knock_in = ValidMinimal
    /\ knock_out = NoKnock
InitAuthVars ==
    /\ write_access_policy = OpenForTests
    /\ revoked = {}
    /\ now = 0
    /\ session = NoSession
    /\ writes = <<>>
    /\ deny_receipts = {}
InitRest ==
    /\ InitChainVars /\ InitReadVars /\ InitKnockVars /\ InitAuthVars
    /\ InitEventVars /\ InitPureVars
    /\ InitMcpVars

\* ------------------------------------------------------------------------
\* Specifications

NoDelivery ==
    [id |-> 0, result |-> None, response |-> None, http |-> FALSE]

Init ==
    /\ store = EmptyStore
    /\ tx = <<>>
    /\ commits = 0
    /\ last_commit = <<>>
    /\ workers = [w \in Workers |-> [pc |-> "poll", batch |-> <<>>]]
    /\ outbox_endpoint \in BOOLEAN
    /\ endpoint_ok = FALSE
    /\ last_delivery = NoDelivery
    /\ mark_count = <<>>
    /\ last_delay = <<>>
    /\ reqs = <<>>
    /\ canon_rate_limiter = 0
    /\ buckets = NoBuckets
    /\ solo = NoBuckets
    /\ admitted = NoBuckets
    /\ vec = IdleVector
    /\ InitRest

\* the commits of a running gate: a WF receipt with its emit_receipt event, or
\* with an event of a type the workers do not know
GateCommitInput ==
    {input \in CommitInput :
        /\ input.receipt_cid = "b3:r1"
        /\ input.receipt_json = "body-a"
        /\ input.idem_key = None
        /\ Len(input.outbox_events) = 1
        /\ ~input.fail_after_receipt_write}

Next ==
    \/ \E input \in GateCommitInput :
            commits < MaxCommits /\ CommitBegin(input)
    \/ CommitEnd
    \/ \E w \in Workers : WorkerPoll(w)
    \/ \E w \in Workers : WorkerDeliver(w)
    \/ \E w \in Workers : WorkerWake(w)
    \/ Tick
    \/ EndpointRecovers

Spec == Init /\ [][Next]_vars

\* every spawned worker task is scheduled again and again, time passes, and an
\* open transaction ends
Fairness ==
    /\ \A w \in Workers :
            WF_vars(WorkerPoll(w)) /\ WF_vars(WorkerDeliver(w)) /\ WF_vars(WorkerWake(w))
    /\ WF_vars(Tick)
    /\ WF_vars(CommitEnd)

FairSpec == Init /\ [][Next]_vars /\ Fairness

\* the commit protocol alone, over every CommitInput
NextCommit ==
    \/ \E input \in CommitInput : commits < MaxCommits /\ CommitBegin(input)
    \/ CommitEnd

SpecCommit == Init /\ [][NextCommit]_vars

\* the limits of UBL_CANON_RATE_LIMIT_PER_MIN tried, 0 for a disabled limiter
PerMinuteChoices == {0, 1, 2}

\* a gate whose limiter is configured at start; the store is empty
\* the store, the outbox and the gate before anything has run, limiter off
InitStoreIdle ==
    /\ store = EmptyStore
    /\ tx = <<>>
    /\ commits = 0
    /\ last_commit = <<>>
    /\ workers = [w \in Workers |-> [pc |-> "poll", batch |-> <<>>]]
    /\ outbox_endpoint = FALSE
    /\ endpoint_ok = FALSE
    /\ last_delivery = NoDelivery
    /\ mark_count = <<>>
    /\ last_delay = <<>>
    /\ reqs = <<>>
    /\ canon_rate_limiter = 0
    /\ buckets = NoBuckets
    /\ solo = NoBuckets
    /\ admitted = NoBuckets
    /\ vec = IdleVector

InitGate ==
    /\ store = EmptyStore
    /\ tx = <<>>
    /\ commits = 0
    /\ last_commit = <<>>
    /\ workers = [w \in Workers |-> [pc |-> "poll", batch |-> <<>>]]
    /\ outbox_endpoint = FALSE
    /\ endpoint_ok = FALSE
    /\ last_delivery = NoDelivery
    /\ mark_count = <<>>
    /\ last_delay = <<>>
    /\ reqs = <<>>
    /\ canon_rate_limiter \in PerMinuteChoices
    /\ buckets = NoBuckets
    /\ solo = NoBuckets
    /\ admitted = NoBuckets
    /\ vec = IdleVector
    /\ InitRest

\* chip submissions through the gate, and the runs of the conformance driver
NextGate ==
    \/ \E r \in Requests, chip \in Chips : Submit(r, chip)
    \/ \E r \in Arrived : RateLimit(r)
    \/ \E r \in Arrived : PipelineBegin(r)
    \/ \E r \in Arrived : StageWA(r)
    \/ \E r \in Arrived : StageCheck(r)
    \/ \E r \in Arrived : StageTR(r)
    \/ \E r \in Arrived : StageWF(r)
    \/ \E r \in Arrived : Respond(r)
    \/ \E d \in RateSteps : RateTick(d)
    \/ \E chip \in Chips : VectorStart(chip)
    \/ VectorCheck
    \/ VectorTransition
    \/ VectorReturn

SpecGate == InitGate /\ [][NextGate]_vars

\* a receipt is built stage after stage, and its stored form is changed once
InitChain == InitStoreIdle /\ InitRest

NextChain ==
    \/ \E has_output \in BOOLEAN : AppendStage(has_output)
    \/ \E i \in 1..MaxStages, field \in StageFields : ChangeField(i, field)
    \/ \E i, j \in 1..MaxStages : ReorderStages(i, j)
    \/ \E i \in 1..MaxStages : RemoveStage(i)
    \/ \E i \in 1..(MaxStages + 1), e \in InsertableEntries(receipt) : InsertStage(i, e)

SpecChain == InitChain /\ [][NextChain]_vars

\* a receipt is stored, its stored form is changed at most once, and it is read
InitRead ==
    /\ InitStoreIdle
    /\ InitChainVars
    /\ durable_store \in BOOLEAN
    /\ read = NoRead
    /\ InitKnockVars
    /\ InitAuthVars
    /\ InitEventVars
    /\ InitPureVars
    /\ InitMcpVars

NextRead ==
    \/ \E has_output \in BOOLEAN : AppendStage(has_output)
    \/ \E i \in 1..MaxStages, field \in StageFields : ChangeField(i, field)
    \/ \E i \in 1..MaxStages : RemoveStage(i)
    \/ CorruptJson
    \/ \E cid \in CidForms, inm \in BOOLEAN, lookup \in Lookups : GetReceipt(cid, inm, lookup)
    \/ \E cid \in CidForms, lookup \in Lookups, link \in BOOLEAN :
            GetReceiptPublicUrl(cid, lookup, link)
    \/ \E lookup \in Lookups, chip \in Lookups : GetReceiptTrace(lookup, chip)
    \/ \E cid \in CidForms, chip \in Lookups, has \in BOOLEAN, lookup \in Lookups :
            VerifyChip(cid, chip, has, lookup)
    \/ \E has_cid \in BOOLEAN, lookup \in Lookups : McpReceipt(has_cid, lookup)
    \/ \E has_cid \in BOOLEAN, lookup \in Lookups, chip \in Lookups :
            McpReceiptTrace(has_cid, lookup, chip)

SpecRead == InitRead /\ [][NextRead]_vars

\* the vectors of the knock matrix, one after the other
InitKnock ==
    /\ InitStoreIdle
    /\ InitChainVars
    /\ InitReadVars
    /\ knock_in \in {b \in KnockInputs : WellFormedInput(b)}
    /\ knock_out = NoKnock
    /\ InitAuthVars
    /\ InitEventVars
    /\ InitPureVars
    /\ InitMcpVars

NextKnock ==
    \/ \E b \in KnockInputs : KnockVector(b)
    \/ KnockRun

SpecKnock == InitKnock /\ [][NextKnock]_vars

\* writes through every entry of the gate, under each write policy
InitWrite ==
    /\ InitStoreIdle
    /\ InitChainVars
    /\ InitReadVars
    /\ InitKnockVars
    /\ write_access_policy \in WritePolicies
    /\ revoked = {}
    /\ now = 0
    /\ session = NoSession
    /\ writes = <<>>
    /\ deny_receipts = {}
    /\ InitEventVars
    /\ InitPureVars
    /\ InitMcpVars

NextWrite ==
    \/ \E cred \in Creds, queries \in QueryOutcomes : WsUpgrade(cred, queries)
    \/ \E target \in RevokeTargets : Revoke(target)
    \/ ClockTick
    \/ \E route \in Routes, body \in WriteBodies, cred \in Creds :
            WriteArrives(route, body, cred)
    \/ \E w \in Written, stored \in BOOLEAN : KnockBody(w, stored)
    \/ \E w \in Written, queries \in QueryOutcomes, stored \in BOOLEAN :
            Authorize(w, queries, stored)
    \/ \E w \in Written : Admit(w)
    \/ \E r \in Arrived : RateLimit(r)
    \/ \E r \in Arrived : PipelineBegin(r)
    \/ \E r \in Arrived : StageWA(r)
    \/ \E r \in Arrived : StageCheck(r)
    \/ \E r \in Arrived : StageTR(r)
    \/ \E r \in Arrived : StageWF(r)
    \/ \E r \in Arrived : Respond(r)

SpecWrite == InitWrite /\ [][NextWrite]_vars

\* receipt events are published, ingested into the store, and streamed to a subscriber
InitEvents ==
    /\ InitStoreIdle
    /\ InitChainVars
    /\ InitReadVars
    /\ InitKnockVars
    /\ InitAuthVars
    /\ event_bus = [sent |-> <<>>, closed |-> FALSE]
    /\ event_store \in {NoValue, Some(<<>>)}
    /\ ingest = [pc |-> "running", next |-> 1, append_failed |-> FALSE]
    /\ stream = NoStream
    /\ events_stream_dropped = [reason \in DropReasons |-> 0]
    /\ InitPureVars
    /\ InitMcpVars

NextEvents ==
    \/ \E event \in ReceiptEvents : Publish(event)
    \/ CloseBus
    \/ \E append_ok \in BOOLEAN : Ingest(append_ok)
    \/ \E query \in StreamQueries, query_ok \in BOOLEAN : StreamEvents(query, query_ok)
    \/ StreamSubscribe
    \/ StreamHistorical
    \/ StreamLive

SpecEvents == InitEvents /\ [][NextEvents]_vars

\* ------------------------------------------------------------------------
\* to_hub_event on two receipt events, and on the first of them once more

HubStages == {"wf", "WF", "write_finished", "check", "advisory"}

HubEvents ==
    [pipeline_stage : HubStages,
     decision : {NoValue, Some("allow")},
     world : {Some("a/acme/t/prod")},
     receipt_type : {"ubl/user"},
     actor : {NoValue, Some("did:key:z1#k1")},
     code : {NoValue},
     receipt_cid : {"b3:receipt-1", "b3:receipt-2"},
     input_cid : {NoValue, Some("b3:in")},
     output_cid : {NoValue, Some("b3:receipt-1")}]

NoHub == [first |-> <<>>, second |-> <<>>, again |-> <<>>]

ToHubEvent ==
    /\ pure_in # <<>>
    /\ pure_out = <<>>
    /\ pure_out' = Some([NoHub EXCEPT !.first = Some(to_hub_event(pure_in[1].first)),
                                      !.second = Some(to_hub_event(pure_in[1].second))])
    /\ UNCHANGED <<pure_in, notPureVars>>

\* the first event is broadcast a second time
Rebroadcast ==
    /\ pure_out # <<>>
    /\ pure_out[1].again = <<>>
    /\ pure_out' = Some([pure_out[1] EXCEPT !.again = Some(to_hub_event(pure_in[1].first))])
    /\ UNCHANGED <<pure_in, notPureVars>>

InitHubEvent ==
    /\ InitStoreIdle
    /\ InitChainVars /\ InitReadVars /\ InitKnockVars /\ InitAuthVars /\ InitEventVars
    /\ pure_in \in {Some([first |-> a, second |-> b]) : a, b \in HubEvents}
    /\ pure_out = <<>>
    /\ InitMcpVars

NextHubEvent == ToHubEvent \/ Rebroadcast

SpecHubEvent == InitHubEvent /\ [][NextHubEvent]_vars

\* ------------------------------------------------------------------------
\* requests are committed, their receipt events published, ingested and
\* streamed, and their outbox rows delivered by the workers

MaxEmitRequests == 2

InitEmit ==
    /\ InitStoreIdle
    /\ InitChainVars /\ InitReadVars /\ InitKnockVars /\ InitAuthVars /\ InitPureVars
    /\ event_bus = [sent |-> <<>>, closed |-> FALSE]
    /\ event_store = Some(<<>>)
    /\ ingest = [pc |-> "running", next |-> 1, append_failed |-> FALSE]
    /\ stream = NoStream
    /\ events_stream_dropped = [reason \in DropReasons |-> 0]
    /\ InitMcpVars

NextEmit ==
    \/ \E r \in 1..MaxEmitRequests, chip \in {ChipA, ChipDeny} : Submit(r, chip)
    \/ \E r \in Arrived : RateLimit(r)
    \/ \E r \in Arrived : PipelineBegin(r)
    \/ \E r \in Arrived : StageWA(r)
    \/ \E r \in Arrived : StageCheck(r)
    \/ \E r \in Arrived : StageTR(r)
    \/ \E r \in Arrived : StageWF(r)
    \/ \E r \in Arrived : EmitReceipt(r)
    \/ \E r \in Arrived : Respond(r)
    \/ \E w \in Workers : WorkerPoll(w)
    \/ \E w \in Workers : WorkerDeliver(w)
    \/ \E w \in Workers : WorkerWake(w)
    \/ Ingest(TRUE)
    \/ StreamEvents(NoFilters, TRUE)
    \/ StreamSubscribe
    \/ StreamHistorical
    \/ StreamLive

SpecEmit == InitEmit /\ [][NextEmit]_vars

\* ------------------------------------------------------------------------
\* requests run through the pipeline and are cancelled at any point

InitCancel == InitStoreIdle /\ InitRest

NextCancel ==
    \/ \E r \in Requests, chip \in {ChipA, ChipDeny} : Submit(r, chip)
    \/ \E r \in Arrived : RateLimit(r)
    \/ \E r \in Arrived : PipelineBegin(r)
    \/ \E r \in Arrived : StageWA(r)
    \/ \E r \in Arrived : StageCheck(r)
    \/ \E r \in Arrived : StageTR(r)
    \/ \E r \in Arrived : StageWF(r)
    \/ \E r \in Arrived : Respond(r)
    \/ \E r \in Arrived : Cancel(r)

SpecCancel == InitCancel /\ [][NextCancel]_vars

\* ------------------------------------------------------------------------
\* Canonicaliser rho (rb_vm::canon::RhoCanon): JSON values and their
\* canonical form

\* a JSON value is a pair of a tag and a payload; numbers are kept as their
\* decimal text, an object as the sequence of its members <<key, value>>
JNull == <<"null", "null">>
JBool(b) == <<"bool", IF b THEN "true" ELSE "false">>
JNum(text) == <<"num", text>>
JStr(text) == <<"str", text>>
JArr(items) == <<"arr", items>>
JObj(members) == <<"obj", members>>
RhoErr(code) == <<"err", code>>

is_err(v) == v[1] = "err"

I64Min == "-9223372036854775808"
I64Max == "9223372036854775807"

\* the decimal texts of the numbers that are 64-bit signed integers
is_i64(text) == text \in {"1", "2", "3", I64Min, I64Max}

\* the text has a character U+0000..U+001F
has_control_char(text) == text \in {"line\nbreak"}

\* Unicode NFC: "Cafe+U0301" stands for the decomposed spelling (e followed
\* by the combining acute accent), "Caf+U00E9" for the composed one
nfc(text) == IF text = "Cafe+U0301" THEN "Caf+U00E9" ELSE text

\* the keys in byte-lexicographic order
KeyOrder ==
    <<"@num", "Caf+U00E9", "Cafe+U0301", "a", "b", "f", "m", "max", "min",
      "p", "q", "s", "t", "z">>

key_rank(key) == CHOOSE i \in 1..Len(KeyOrder) : KeyOrder[i] = key

RECURSIVE reverse_members(_)
reverse_members(members) ==
    IF members = <<>> THEN <<>>
    ELSE Append(reverse_members(Tail(members)), Head(members))

RECURSIVE sort_by_key(_)
sort_by_key(members) ==
    IF members = <<>> THEN <<>>
    ELSE LET m == Head(members)
             rest == sort_by_key(Tail(members))
             lower(x) == key_rank(x[1]) < key_rank(m[1])
             upper(x) == ~lower(x)
         IN  SelectSeq(rest, lower) \o <<m>> \o SelectSeq(rest, upper)

\* the value of a member of an object, or <<>>
member(members, key) ==
    LET at == {i \in 1..Len(members) : members[i][1] = key}
    IN  IF at = {} THEN <<>> ELSE <<members[CHOOSE i \in at : TRUE][2]>>

is_decimal_string(v) == v # <<>> /\ v[1][1] = "str" /\ v[1][2] \in {"0", "1234", "1", "3"}

\* an object with "@num" is a numeric atom dec/1 {m, s} or rat/1 {p, q /= 0}
bad_numeric_atom(members) ==
    LET tag == member(members, "@num")
    IN  /\ tag # <<>>
        /\ ~ \/ /\ tag[1] = JStr("dec/1")
                /\ is_decimal_string(member(members, "m"))
                /\ member(members, "s") # <<>>
                /\ member(members, "s")[1][1] = "num"
                /\ is_i64(member(members, "s")[1][2])
             \/ /\ tag[1] = JStr("rat/1")
                /\ is_decimal_string(member(members, "p"))
                /\ is_decimal_string(member(members, "q"))
                /\ member(members, "q")[1][2] # "0"

first_err(values) ==
    values[CHOOSE i \in 1..Len(values) :
                /\ is_err(values[i])
                /\ \A j \in 1..(i - 1) : ~is_err(values[j])]

RECURSIVE rho(_)
rho(v) ==
    CASE v[1] \in {"null", "bool", "err"} -> v
      [] v[1] = "num" -> IF is_i64(v[2]) THEN v ELSE RhoErr("RawFloat")
      [] v[1] = "str" ->
            IF has_control_char(v[2]) THEN RhoErr("ControlChar")
            ELSE JStr(nfc(v[2]))
      [] v[1] = "arr" ->
            LET items == [i \in 1..Len(v[2]) |-> rho(v[2][i])]
            IN  IF \E i \in 1..Len(items) : is_err(items[i])
                THEN first_err(items)
                ELSE JArr(items)
      [] v[1] = "obj" ->
            LET not_null(m) == m[2] # JNull
                kept == SelectSeq(v[2], not_null)
                keys == [i \in 1..Len(kept) |-> nfc(kept[i][1])]
                values == [i \in 1..Len(kept) |-> rho(kept[i][2])]
            IN  IF bad_numeric_atom(kept) THEN RhoErr("BadNumericAtom")
                ELSE IF \E i \in 1..Len(kept) : is_err(values[i])
                THEN first_err(values)
                ELSE IF \E i, j \in 1..Len(kept) : i # j /\ keys[i] = keys[j]
                THEN RhoErr("DuplicateKeyAfterNFC")
                ELSE JObj(sort_by_key([i \in 1..Len(kept) |-> <<keys[i], values[i]>>]))

\* the cases of rho_vector_matrix_basic_behavior
RhoVectors ==
    [empty |-> JObj(<<>>),
     booleans |-> JObj(<< <<"t", JBool(TRUE)>>, <<"f", JBool(FALSE)>> >>),
     int_boundaries |-> JObj(<< <<"min", JNum(I64Min)>>, <<"max", JNum(I64Max)>> >>),
     null_stripping |-> JObj(<< <<"a", JNum("1")>>, <<"b", JNull>> >>),
     nested |-> JObj(<< <<"z", JObj(<< <<"b", JNum("2")>>, <<"a", JNum("1")>> >>)>> >>),
     array |-> JArr(<<JObj(<< <<"b", JNum("2")>>, <<"a", JNum("1")>> >>),
                      JNull, JNum("3")>>)]

RhoAtoms ==
    {JNull, JBool(TRUE), JBool(FALSE), JNum("1"), JNum("2"), JNum(I64Min),
     JNum(I64Max), JNum("12.34"), JStr("x"), JStr("Cafe+U0301"),
     JStr("line\nbreak")}

RhoKeys == {"a", "b", "z", "Cafe+U0301", "Caf+U00E9"}

\* objects of two members in every order of their keys
RhoFlatObjects ==
    {JObj(<< <<k[1], v1>>, <<k[2], v2>> >>) :
        k \in {kk \in RhoKeys \X RhoKeys : kk[1] # kk[2]},
        v1 \in {JNull, JNum("1"), JStr("Cafe+U0301")},
        v2 \in {JNull, JNum("2"), JNum("12.34")}}

RhoNumericAtoms ==
    {JObj(<< <<"s", JNum("2")>>, <<"m", JStr("1234")>>, <<"@num", JStr("dec/1")>> >>),
     JObj(<< <<"q", JStr("3")>>, <<"p", JStr("1")>>, <<"@num", JStr("rat/1")>> >>),
     JObj(<< <<"q", JStr("0")>>, <<"p", JStr("1")>>, <<"@num", JStr("rat/1")>> >>),
     JObj(<< <<"m", JStr("1234")>>, <<"@num", JStr("dec/1")>> >>),
     JObj(<< <<"@num", JStr("bad/9")>> >>)}

RhoInner ==
    {JObj(<< <<"b", JNum("2")>>, <<"a", JNull>> >>),
     JObj(<< <<"b", JNum("2")>>, <<"a", JNum("1")>> >>),
     JObj(<< <<"z", JNull>> >>),
     JArr(<<JNull, JNum("3")>>),
     JArr(<<JNull, JNull>>)} \cup RhoNumericAtoms

\* objects with a nested object or array, arrays of atoms, objects and arrays
RhoNested ==
    {JObj(<< <<k1, inner>>, <<k2, v>> >>) :
        k1 \in {"z", "b"}, k2 \in {"a"}, inner \in RhoInner, v \in {JNull, JNum(I64Max)}}
    \cup {JArr(<<x, y>>) : x \in RhoInner \cup RhoAtoms, y \in {JNull, JNum("3"), JStr("x")}}

RhoInputs ==
    {RhoVectors[name] : name \in DOMAIN RhoVectors}
        \cup RhoAtoms \cup RhoFlatObjects \cup RhoNumericAtoms \cup RhoNested

\* RhoCanon.canon(input)
Canon ==
    /\ pure_in # <<>>
    /\ pure_out = <<>>
    /\ pure_out' = <<rho(pure_in[1])>>
    /\ UNCHANGED <<pure_in, notPureVars>>

\* RhoCanon.canon(once), for a value rho accepted
CanonAgain ==
    /\ Len(pure_out) = 1
    /\ ~is_err(pure_out[1])
    /\ pure_out' = Append(pure_out, rho(pure_out[1]))
    /\ UNCHANGED <<pure_in, notPureVars>>

InitRho ==
    /\ InitStoreIdle
    /\ InitChainVars /\ InitReadVars /\ InitKnockVars /\ InitAuthVars /\ InitEventVars
    /\ pure_in \in {Some(v) : v \in RhoInputs}
    /\ pure_out = <<>>
    /\ InitMcpVars

NextRho == Canon \/ CanonAgain

SpecRho == InitRho /\ [][NextRho]_vars

\* ------------------------------------------------------------------------
\* Authorship (ubl_runtime::authorship): the subject DID of a chip body

\* Value::get(key), Value::as_object, Value::as_str
value_get(v, key) == IF v[1] = "obj" THEN member(v[2], key) ELSE NoValue
as_object(v) == IF v[1] = "obj" THEN Some(v) ELSE NoValue
as_str(v) == IF v[1] = "str" THEN Some(v[2]) ELSE NoValue

\* s.starts_with("did:"), over the texts that occur
starts_with_did(s) == s \in {"did:key:zActor", "did:key:zRoot", "did:key:zOwner"}

\* Option::filter(|s| s.starts_with("did:"))
filter_did(opt) == IF opt # NoValue /\ starts_with_did(opt[1]) THEN opt ELSE NoValue

object_get_str(opt_object, key) ==
    IF opt_object = NoValue THEN NoValue
    ELSE LET v == value_get(opt_object[1], key)
         IN  IF v = NoValue THEN NoValue ELSE as_str(v[1])

actor_of(body) ==
    LET v == value_get(body, "actor")
    IN  IF v = NoValue THEN NoValue ELSE as_object(v[1])

\* the root did is looked at before the actor's
extract_explicit_did_root_first(body) ==
    LET actor_did == object_get_str(actor_of(body), "did")
        root_did == object_get_str(Some(body), "did")
        owner_did == object_get_str(Some(body), "owner_did")
    IN  IF filter_did(root_did) # NoValue THEN root_did
        ELSE IF filter_did(actor_did) # NoValue THEN actor_did
        ELSE filter_did(owner_did)

extract_explicit_did(body) ==
    LET actor_did == object_get_str(actor_of(body), "did")
        root_did == object_get_str(Some(body), "did")
        owner_did == object_get_str(Some(body), "owner_did")
    IN  IF filter_did(actor_did) # NoValue THEN actor_did
        ELSE IF filter_did(root_did) # NoValue THEN root_did
        ELSE filter_did(owner_did)

\* copy_if_str: the claims with the key added when the source has a text there
copy_if_str(src, key, dst) ==
    LET v == object_get_str(src, key)
    IN  IF v = NoValue THEN dst ELSE dst \cup {<<key, v[1]>>}

\* the CID of the claims map: a hash, one value per map
claims_fingerprint(claims) == <<"b3", claims>>

NoHint == [ip_prefix |-> NoValue, user_agent_hash |-> NoValue]

\* a DID is the sequence of its parts: <<did>> for an explicit one,
\* <<"did:ubl:anon:", fingerprint>> for an anonymous one
resolve_subject_did(body, hint) ==
    LET explicit == IF body = NoValue THEN NoValue ELSE extract_explicit_did(body[1])
        actor == IF body = NoValue THEN NoValue ELSE actor_of(body[1])
        c1 == copy_if_str(actor, "installation_key", {})
        c2 == copy_if_str(actor, "client_pubkey", c1)
        c3 == copy_if_str(actor, "device_id", c2)
        c4 == copy_if_str(actor, "session_id", c3)
        c5 == copy_if_str(actor, "kid", c4)
        c6 == IF hint # NoValue /\ hint[1].ip_prefix # NoValue
              THEN c5 \cup {<<"ip_prefix", hint[1].ip_prefix[1]>>} ELSE c5
        c7 == IF hint # NoValue /\ hint[1].user_agent_hash # NoValue
              THEN c6 \cup {<<"user_agent_hash", hint[1].user_agent_hash[1]>>} ELSE c6
    IN  IF explicit # NoValue THEN <<explicit[1]>>
        ELSE <<"did:ubl:anon:", claims_fingerprint(c7)>>

\* a member of an object under construction, or none
opt_member(key, opt) == IF opt = NoValue THEN <<>> ELSE << <<key, opt[1]>> >>

DidActors ==
    {NoValue, Some(JStr("did:key:zActor"))}
    \cup {Some(JObj(opt_member("did", d) \o opt_member("installation_key", ik)
                    \o opt_member("device_id", dev) \o opt_member("kid", kid)
                    \o opt_member("name", name))) :
            d \in {NoValue, Some(JStr("did:key:zActor")), Some(JStr("zActor")),
                   Some(JNum("1"))},
            ik \in {NoValue, Some(JStr("inst-123")), Some(JNum("1"))},
            dev \in {NoValue, Some(JStr("dev-1"))},
            kid \in {NoValue, Some(JStr("kid-1"))},
            name \in {NoValue, Some(JStr("x"))}}

DidBodies ==
    {NoValue, Some(JStr("did:key:zRoot"))}
    \cup {Some(JObj(opt_member("actor", actor) \o opt_member("did", d)
                    \o opt_member("owner_did", owner))) :
            actor \in DidActors,
            d \in {NoValue, Some(JStr("did:key:zRoot")), Some(JStr("zRoot")),
                   Some(JNum("2"))},
            owner \in {NoValue, Some(JStr("did:key:zOwner")), Some(JStr("zOwner"))}}

DidHints ==
    {NoValue}
    \cup {Some([ip_prefix |-> ip, user_agent_hash |-> ua]) :
            ip \in {NoValue, Some("10.0")}, ua \in {NoValue, Some("ua-1")}}

ResolveSubjectDid ==
    /\ pure_in # <<>>
    /\ pure_out = <<>>
    /\ pure_out' = Some(resolve_subject_did(pure_in[1].body, pure_in[1].hint))
    /\ UNCHANGED <<pure_in, notPureVars>>

\* the same body and hints are resolved a second time
ResolveAgain ==
    /\ Len(pure_out) = 1
    /\ pure_out' = Append(pure_out, resolve_subject_did(pure_in[1].body, pure_in[1].hint))
    /\ UNCHANGED <<pure_in, notPureVars>>

InitDid ==
    /\ InitStoreIdle
    /\ InitChainVars /\ InitReadVars /\ InitKnockVars /\ InitAuthVars /\ InitEventVars
    /\ pure_in \in {Some([body |-> b, hint |-> h]) : b \in DidBodies, h \in DidHints}
    /\ pure_out = <<>>
    /\ InitMcpVars

NextDid == ResolveSubjectDid \/ ResolveAgain

SpecDid == InitDid /\ [][NextDid]_vars

\* ------------------------------------------------------------------------
\* WASM adapter declaration (pipeline/types.rs AdapterRuntimeInfo)

\* a SHA-256 digest in hex, 64 characters
Sha256Hex == "9f86d081884c7d659a2feaa0c55ad015a3bf4f1b2b0b822cd15d6c15b0f00a08"

\* wasm_sha256.len() == 64 && wasm_sha256.chars().all(|c| c.is_ascii_hexdigit())
is_hex(text) == text \in {Sha256Hex}

\* Value::as_u64, Value::as_array
as_u64(v) == IF v[1] = "num" /\ v[2] \in {"1", "2", "3", I64Max} THEN Some(v[2]) ELSE NoValue
as_array(v) == IF v[1] = "arr" THEN Some(v[2]) ELSE NoValue

\* adapter.get(key).and_then(|v| v.as_str())
adapter_str(adapter, key) == object_get_str(Some(adapter), key)

adapter_u64(adapter, key) ==
    LET v == value_get(adapter, key)
    IN  IF v = NoValue THEN NoValue ELSE as_u64(v[1])

\* the texts of the array at the key, in order; empty without an array
adapter_strings(adapter, key) ==
    LET v == value_get(adapter, key)
        arr == IF v = NoValue THEN NoValue ELSE as_array(v[1])
        is_text(x) == as_str(x) # NoValue
        texts == IF arr = NoValue THEN <<>> ELSE SelectSeq(arr[1], is_text)
    IN  [i \in 1..Len(texts) |-> texts[i][2]]

InvalidChip(code) == [ok |-> FALSE, code |-> code, info |-> NoValue]
ParsedAdapter(info) == [ok |-> TRUE, code |-> None, info |-> info]

\* AdapterRuntimeInfo::parse_optional
parse_optional(body) ==
    LET adapter_value == value_get(body, "adapter")
        adapter == adapter_value[1]
        wasm_sha256 == adapter_str(adapter, "wasm_sha256")
        abi_version == adapter_str(adapter, "abi_version")
    IN  IF adapter_value = NoValue THEN ParsedAdapter(NoValue)
        ELSE IF as_object(adapter) = NoValue THEN InvalidChip("WASM_ABI_INVALID_PAYLOAD")
        ELSE IF wasm_sha256 = NoValue THEN InvalidChip("WASM_ABI_INVALID_PAYLOAD")
        ELSE IF abi_version = NoValue THEN InvalidChip("WASM_ABI_MISSING_VERSION")
        ELSE IF ~is_hex(wasm_sha256[1]) THEN InvalidChip("WASM_VERIFY_HASH_MISMATCH")
        ELSE IF abi_version[1] # "1.0" THEN InvalidChip("WASM_ABI_UNSUPPORTED_VERSION")
        ELSE ParsedAdapter(Some(
                [wasm_sha256 |-> wasm_sha256[1],
                 abi_version |-> abi_version[1],
                 wasm_cid |-> adapter_str(adapter, "wasm_cid"),
                 wasm_b64 |-> adapter_str(adapter, "wasm_b64"),
                 fuel_budget |-> adapter_u64(adapter, "fuel_budget"),
                 timeout_ms |-> adapter_u64(adapter, "timeout_ms"),
                 capabilities |-> adapter_strings(adapter, "capabilities"),
                 attestation_signature_b64 |->
                    adapter_str(adapter, "attestation_signature_b64"),
                 attestation_trust_anchor |->
                    adapter_str(adapter, "attestation_trust_anchor"),
                 required_receipt_claims |->
                    adapter_strings(adapter, "required_receipt_claims")]))

AdapterValues ==
    {NoValue, Some(JStr("adapter")), Some(JNull)}
    \cup {Some(JObj(opt_member("wasm_sha256", sha) \o opt_member("abi_version", abi)
                    \o opt_member("wasm_b64", b64) \o opt_member("fuel_budget", fuel)
                    \o opt_member("capabilities", caps)
                    \o opt_member("attestation_trust_anchor", anchor))) :
            sha \in {NoValue, Some(JStr(Sha256Hex)), Some(JStr("not-hex")), Some(JNum("1"))},
            abi \in {NoValue, Some(JStr("1.0")), Some(JStr("2.0")), Some(JNum("1"))},
            b64 \in {NoValue, Some(JStr("AGFzbQ"))},
            fuel \in {NoValue, Some(JNum("3")), Some(JStr("3"))},
            caps \in {NoValue, Some(JArr(<<>>)), Some(JArr(<<JStr("network"), JNum("1")>>))},
            anchor \in {NoValue, Some(JStr("did:key:zunknown"))}}

AdapterBodies == {JObj(opt_member("adapter", a)) : a \in AdapterValues}

ParseOptional ==
    /\ pure_in # <<>>
    /\ pure_out = <<>>
    /\ pure_out' = Some(parse_optional(pure_in[1]))
    /\ UNCHANGED <<pure_in, notPureVars>>

InitAdapter ==
    /\ InitStoreIdle
    /\ InitChainVars /\ InitReadVars /\ InitKnockVars /\ InitAuthVars /\ InitEventVars
    /\ pure_in \in {Some(b) : b \in AdapterBodies}
    /\ pure_out = <<>>
    /\ InitMcpVars

NextAdapter == ParseOptional

SpecAdapter == InitAdapter /\ [][NextAdapter]_vars

\* ------------------------------------------------------------------------
\* WASM adapter at TR (stage_transition with an adapter): the checks on a
\* parsed declaration and the error each failure gives

\* the modules of the stage tests
WasmModules == {"identity", "infinite_loop", "missing_entrypoint"}

\* hex::encode(digest(SHA256, module))
sha256_hex(module) ==
    CASE module = "identity" -> Sha256Hex
      [] module = "infinite_loop" ->
            "2c26b46b68ffc68ff99b453c1d30413413422d706483bfa0f98a5e886266e7ae"
      [] module = "missing_entrypoint" ->
            "fcde2b2edba56bf408601fb721fe9b5c338d10ee429ea04fae5511b68fbf8fb9"

ZeroSha == "0000000000000000000000000000000000000000000000000000000000000000"

\* URL_SAFE_NO_PAD.encode(module), and the decoding of a text
b64_encode(module) == "b64:" \o module
b64_decode(text) ==
    IF \E m \in WasmModules : text = b64_encode(m)
    THEN Some(CHOOSE m \in WasmModules : text = b64_encode(m))
    ELSE NoValue

\* wasm_test_trust_anchor_did(), the one known trust anchor, and the
\* signature its key makes over {wasm_sha256, abi_version}
TrustAnchor == "did:key:ztest"
attestation_sign(wasm_sha256, abi_version) == "ed25519:" \o wasm_sha256 \o ":" \o abi_version

\* the module exports memory and ubl_adapter_v1 : (i32, i32) -> i32
exports_entrypoint(module) == module # "missing_entrypoint"

\* the claims the receipt binding of an executed adapter has
BoundClaims ==
    {"wasm.module.sha256", "wasm.abi.version", "wasm.profile", "wasm.fuel.used",
     "wasm.memory.max_bytes", "wasm.verify.status"}

\* the PipelineError of each code: the capability failures are PolicyDenied,
\* every other failure of the adapter is InvalidChip
adapter_error(code) ==
    [kind |-> IF code \in {"WASM_CAPABILITY_DENIED_NETWORK", "WASM_CAPABILITY_DENIED"}
              THEN "PolicyDenied" ELSE "InvalidChip",
     code |-> code, ok |-> FALSE]

adapter_ok == [kind |-> None, code |-> "OK", ok |-> TRUE]

\* capabilities.iter().any(|c| c == name)
has_capability(name, capabilities) ==
    \E i \in 1..Len(capabilities) : capabilities[i] = name

\* stage_transition, for a request whose adapter declaration parsed
stage_transition_adapter(info) ==
    LET module == b64_decode(info.wasm_b64[1])
        sig == info.attestation_signature_b64
        anchor == info.attestation_trust_anchor
    IN  IF info.wasm_b64 = NoValue \/ module = NoValue
        THEN adapter_error("WASM_ABI_INVALID_PAYLOAD")
        ELSE IF sha256_hex(module[1]) # info.wasm_sha256
        THEN adapter_error("WASM_VERIFY_HASH_MISMATCH")
        ELSE IF (sig = NoValue) # (anchor = NoValue)
        THEN adapter_error("WASM_VERIFY_SIGNATURE_INVALID")
        ELSE IF anchor # NoValue /\ anchor[1] # TrustAnchor
        THEN adapter_error("WASM_VERIFY_TRUST_ANCHOR_MISMATCH")
        ELSE IF sig # NoValue
                /\ sig[1] # attestation_sign(info.wasm_sha256, info.abi_version)
        THEN adapter_error("WASM_VERIFY_SIGNATURE_INVALID")
        ELSE IF has_capability("network", info.capabilities)
        THEN adapter_error("WASM_CAPABILITY_DENIED_NETWORK")
        ELSE IF info.capabilities # <<>>
        THEN adapter_error("WASM_CAPABILITY_DENIED")
        ELSE IF ~exports_entrypoint(module[1])
        THEN adapter_error("WASM_DETERMINISM_VIOLATION")
        ELSE IF module[1] = "infinite_loop"
        THEN adapter_error("WASM_RESOURCE_FUEL_EXHAUSTED")
        ELSE IF \E i \in 1..Len(info.required_receipt_claims) :
                    info.required_receipt_claims[i] \notin BoundClaims
        THEN adapter_error("WASM_RECEIPT_BINDING_MISSING_CLAIM")
        ELSE adapter_ok

\* the declarations parse_optional accepts, over the adapters of the stage
\* tests and of build_request_for_vector
ParsedAdapters ==
    {[wasm_sha256 |-> sha, abi_version |-> "1.0", wasm_cid |-> NoValue,
      wasm_b64 |-> b64, fuel_budget |-> fuel, timeout_ms |-> NoValue,
      capabilities |-> caps, attestation_signature_b64 |-> sig,
      attestation_trust_anchor |-> anchor, required_receipt_claims |-> claims] :
        sha \in {sha256_hex(m) : m \in WasmModules} \cup {ZeroSha},
        b64 \in {Some(b64_encode(m)) : m \in WasmModules} \cup {Some("***not-base64***")},
        fuel \in {NoValue, Some("3")},
        caps \in {<<>>, <<"network">>, <<"clock">>, <<"clock", "network">>},
        sig \in {NoValue, Some("***invalid***"), Some("ed25519:AAAA"),
                 Some(attestation_sign(Sha256Hex, "1.0"))},
        anchor \in {NoValue, Some(TrustAnchor), Some("did:key:zunknown")},
        claims \in {<<>>, <<"wasm.fuel.used">>, <<"wasm.nonexistent.claim">>}}

StageTransitionAdapter ==
    /\ pure_in # <<>>
    /\ pure_out = <<>>
    /\ pure_out' = Some(stage_transition_adapter(pure_in[1]))
    /\ UNCHANGED <<pure_in, notPureVars>>

\* the gate's answer to the outcome of the stage
AdapterRespond ==
    /\ Len(pure_out) = 1
    /\ pure_out' = Append(pure_out,
            IF pure_out[1].ok THEN 200 ELSE http_status(pure_out[1].kind))
    /\ UNCHANGED <<pure_in, notPureVars>>

InitTransition ==
    /\ InitStoreIdle
    /\ InitChainVars /\ InitReadVars /\ InitKnockVars /\ InitAuthVars /\ InitEventVars
    /\ pure_in \in {Some(info) : info \in ParsedAdapters}
    /\ pure_out = <<>>
    /\ InitMcpVars

NextTransition == StageTransitionAdapter \/ AdapterRespond

SpecTransition == InitTransition /\ [][NextTransition]_vars

\* ------------------------------------------------------------------------
\* WASM adapter execution under a fuel budget (stage_transition running the
\* module's ubl_adapter_v1)

MaxFuel == 12

\* the budget of a declaration without fuel_budget
DefaultFuel == 10

\* the body of ubl_adapter_v1 in each module of the stage tests
\* (wasm_identity_module, wasm_infinite_loop_module)
entry_code(module) ==
    CASE module = "identity" -> <<"local.get 1">>
      [] module = "infinite_loop" -> <<"loop", "br 0", "i32.const 0">>
      [] OTHER -> <<>>

\* the instruction executed next: br 0 goes back to its loop
next_pc(code, pc) == IF code[pc] = "br 0" THEN pc - 1 ELSE pc + 1

\* the budget is never charged
consume_none(fuel) == fuel

\* each instruction is charged one unit of fuel
consume(fuel) == fuel - 1

NoRun == [pc |-> 0, budget |-> 0, fuel |-> 0, code |-> None, tr |-> NoValue]

\* stage_transition instantiates the module with its budget
AdapterStart ==
    /\ pure_in # <<>>
    /\ pure_out = <<>>
    /\ LET adapter == pure_in[1]
           budget == IF adapter.fuel_budget = NoValue THEN DefaultFuel
                     ELSE adapter.fuel_budget[1]
       IN  pure_out' =
                IF ~exports_entrypoint(adapter.module)
                THEN Some([NoRun EXCEPT !.code = "WASM_DETERMINISM_VIOLATION"])
                ELSE Some([NoRun EXCEPT !.pc = 1, !.budget = budget, !.fuel = budget])
    /\ UNCHANGED <<pure_in, notPureVars>>

\* one instruction of the entry point, or its return, or the trap of an
\* exhausted budget
AdapterStep ==
    /\ pure_out # <<>>
    /\ pure_out[1].code = None
    /\ LET run == pure_out[1]
           code == entry_code(pure_in[1].module)
       IN  pure_out' =
                IF run.pc > Len(code)
                THEN Some([run EXCEPT !.code = "OK",
                                      !.tr = Some([adapter_executed |-> TRUE,
                                                   adapter_fuel_used |-> run.budget - run.fuel])])
                ELSE IF run.fuel = 0
                THEN Some([run EXCEPT !.code = "WASM_RESOURCE_FUEL_EXHAUSTED"])
                ELSE Some([run EXCEPT !.pc = next_pc(code, run.pc),
                                      !.fuel = consume(run.fuel)])
    /\ UNCHANGED <<pure_in, notPureVars>>

InitFuel ==
    /\ InitStoreIdle
    /\ InitChainVars /\ InitReadVars /\ InitKnockVars /\ InitAuthVars /\ InitEventVars
    /\ pure_in \in {Some([module |-> m, fuel_budget |-> f]) :
                        m \in WasmModules,
                        f \in {NoValue} \cup {Some(n) : n \in 1..MaxFuel}}
    /\ pure_out = <<>>
    /\ InitMcpVars

NextFuel == AdapterStart \/ AdapterStep

\* the stage runs the adapter to its end
SpecFuel == InitFuel /\ [][NextFuel]_vars /\ WF_vars(NextFuel)

\* ------------------------------------------------------------------------
\* world_scope_allows over every pair of short texts

MaxScopeLen == 3
MaxTargetLen == 5

\* the characters of a world: a letter, the separator, a blank, the wildcard
WorldChars == {"a", "/", " ", "*"}

Texts(n) == UNION {[1..k -> WorldChars] : k \in 0..n}

WorldScopeAllows ==
    /\ pure_in # <<>>
    /\ pure_out = <<>>
    /\ pure_out' = Some(world_scope_allows_text(pure_in[1].scope, pure_in[1].target))
    /\ UNCHANGED <<pure_in, notPureVars>>

InitWorld ==
    /\ InitStoreIdle
    /\ InitChainVars /\ InitReadVars /\ InitKnockVars /\ InitAuthVars /\ InitEventVars
    /\ pure_in \in {Some([scope |-> s, target |-> t]) :
                        s \in Texts(MaxScopeLen), t \in Texts(MaxTargetLen)}
    /\ pure_out = <<>>
    /\ InitMcpVars

NextWorld == WorldScopeAllows

SpecWorld == InitWorld /\ [][NextWorld]_vars

\* ------------------------------------------------------------------------
\* writes to POST /v1/chips and through the trusted registry route, one
\* after the other, at a gate whose canon rate limiter admits one request per
\* fingerprint and minute
InitOrder ==
    /\ store = EmptyStore
    /\ tx = <<>>
    /\ commits = 0
    /\ last_commit = <<>>
    /\ workers = [w \in Workers |-> [pc |-> "poll", batch |-> <<>>]]
    /\ outbox_endpoint = FALSE
    /\ endpoint_ok = FALSE
    /\ last_delivery = NoDelivery
    /\ mark_count = <<>>
    /\ last_delay = <<>>
    /\ reqs = <<>>
    /\ canon_rate_limiter = 1
    /\ buckets = NoBuckets
    /\ solo = NoBuckets
    /\ admitted = NoBuckets
    /\ vec = IdleVector
    /\ InitChainVars /\ InitReadVars /\ InitKnockVars /\ InitEventVars /\ InitPureVars
    /\ write_access_policy = [auth_required |-> TRUE, api_keys |-> {"k-test"}]
    /\ revoked = {}
    /\ now = 0
    /\ session = NoSession
    /\ writes = <<>>
    /\ deny_receipts = {}
    /\ InitMcpVars

NextOrder ==
    \/ \E route \in {"chips", "kat"},
          body \in {BodyOf(ChipPrivate), BodyOf(ChipPublic), BodyInvalid},
          cred \in {NoCred,
                    [kind |-> "api_key", value |-> "k-test", x_api_key |-> "none"],
                    [kind |-> "api_key", value |-> "k-bad", x_api_key |-> "none"]} :
            WriteArrives(route, body, cred)
    \/ \E w \in Written, stored \in BOOLEAN : KnockBody(w, stored)
    \/ \E w \in Written, stored \in BOOLEAN : Authorize(w, "ok", stored)
    \/ \E w \in Written : Admit(w)
    \/ \E r \in Arrived : RateLimit(r)
    \/ \E r \in Arrived : PipelineBegin(r)
    \/ \E r \in Arrived : StageWA(r)
    \/ \E r \in Arrived : StageCheck(r)
    \/ \E r \in Arrived : StageTR(r)
    \/ \E r \in Arrived : StageWF(r)
    \/ \E r \in Arrived : Respond(r)

SpecOrder == InitOrder /\ [][NextOrder]_vars

\* ------------------------------------------------------------------------
\* The MCP token limiter under calls for two tokens

MaxMcpChecks == 4
MaxInstant == 120
McpRpms == {0, 1, 2}
InstantSteps == {30, 59}

\* mcp.rs tools/call of a session whose token is token_id: the limiter's check
McpCheck(token_id) ==
    LET result == check(mcp_token_rate_limiter.buckets[token_id],
                        mcp_token_rate_limiter.per_minute, instant)
    IN  /\ Len(mcp_checks) < MaxMcpChecks
        /\ mcp_token_rate_limiter' =
               [mcp_token_rate_limiter EXCEPT !.buckets[token_id] = result.bucket]
        /\ mcp_checks' = Append(mcp_checks,
               [token_id |-> token_id, at |-> instant, returned |-> result.returned])
        /\ UNCHANGED <<instant, notMcpVars>>

\* time passes on the monotonic clock
InstantPasses(secs) ==
    /\ instant + secs <= MaxInstant
    /\ instant' = instant + secs
    /\ UNCHANGED <<mcp_token_rate_limiter, mcp_checks, notMcpVars>>

InitMcp ==
    /\ InitStoreIdle
    /\ InitChainVars /\ InitReadVars /\ InitKnockVars /\ InitAuthVars /\ InitEventVars
    /\ InitPureVars
    /\ mcp_token_rate_limiter \in {McpTokenRateLimiter(rpm) : rpm \in McpRpms}
    /\ instant = 0
    /\ mcp_checks = <<>>

NextMcp ==
    \/ \E token_id \in McpTokenIds : McpCheck(token_id)
    \/ \E secs \in InstantSteps : InstantPasses(secs)

SpecMcp == InitMcp /\ [][NextMcp]_vars

\* ------------------------------------------------------------------------
\* Claims
\* ------------------------------------------------------------------------

\* the step that ends a commit_wf_atomically call made with the failure hook set
FailedCommitStep == tx # <<>> /\ tx' = <<>> /\ tx[1].fail_after_receipt_write

\* C1: atomic commit.  A commit_wf_atomically call that fails after the receipt
\* row was written (fail_after_receipt_write) leaves the durable store as it was
\* before the call: no receipt row, no chain edge, no outbox row and no
\* idempotency entry of that commit; get_receipt(cid) still returns nothing for
\* a cid that was not stored before, and outbox_pending() is unchanged.
C1_AtomicCommit ==
    [][FailedCommitStep =>
        /\ store'.receipts = store.receipts
        /\ store'.chain = store.chain
        /\ store'.outbox = store.outbox
        /\ store'.idem = store.idem
        /\ (get_receipt(store, tx[1].receipt_cid) = None
                => get_receipt(store', tx[1].receipt_cid) = None)
        /\ outbox_pending(store') = outbox_pending(store)]_vars

\* a failed commit that carried outbox events and an idempotency key, for a cid
\* the store does not hold
C1_Witness ==
    /\ last_commit # <<>>
    /\ ~last_commit[1].ok
    /\ last_commit[1].input.fail_after_receipt_write
    /\ last_commit[1].input.outbox_events # <<>>
    /\ last_commit[1].input.idem_key # None
    /\ get_receipt(store, last_commit[1].input.receipt_cid) = None

OutboxIds == 1..MaxCommits
Stored(id) == id <= Len(store.outbox)
IsPending(id) == Stored(id) /\ store.outbox[id].state = "pending"
IsDelivered(id) == Stored(id) /\ store.outbox[id].state = "delivered"

\* worker w calls the delivery closure in this step, on the head of its batch
DeliveryStep(w) == workers[w].pc = "deliver" /\ workers'[w] # workers[w]
Handed(w) == Head(workers[w].batch)

\* C6: outbox at-least-once.  With every spawned worker scheduled fairly: a
\* pending emit_receipt event is eventually marked delivered once the endpoint
\* answers 2xx to every attempt; an attempt that failed before that left the
\* event pending for a retry; and the store marks no event delivered twice.
C6_AtLeastOnce ==
    /\ \A id \in OutboxIds :
            (endpoint_ok /\ IsPending(id) /\ store.outbox[id].event_type = "emit_receipt")
                ~> IsDelivered(id)
    /\ [](\A id \in OutboxIds :
            Stored(id) =>
                /\ mark_count[id] <= 1
                /\ (mark_count[id] = 1 <=> store.outbox[id].state = "delivered"))

\* an event that failed at least once and was delivered after the endpoint recovered
C6_Witness ==
    \E id \in OutboxIds :
        /\ IsDelivered(id)
        /\ store.outbox[id].attempts >= 1
        /\ endpoint_ok
        /\ mark_count[id] = 1

Processed(r) == reqs[r].pc = "done" /\ reqs[r].resp.status = 200
SameCanon(r1, r2) == Fingerprint(reqs[r1].chip) = Fingerprint(reqs[r2].chip)

\* r1 was answered before any other submission of its canonical form arrived
FirstOfCanon(r1) ==
    \A q \in Arrived \ {r1} :
        SameCanon(q, r1) => r1 \in reqs[q].after

\* C2: when a chip is processed and answered for the first time, and a
\* canonical-equivalent chip is submitted after that answer and processed, both
\* answers carry the same receipt_cid; the first has replayed = false and no
\* X-UBL-Replay header, the second has replayed = true and the header, and the
\* second request runs no stage and stores no WF receipt of its own.
C2_ReplaySafety ==
    \A r1, r2 \in Arrived :
        (/\ Processed(r1) /\ Processed(r2)
         /\ SameCanon(r1, r2)
         /\ FirstOfCanon(r1)
         /\ r1 \in reqs[r2].after)
        => /\ reqs[r2].resp.receipt_cid = reqs[r1].resp.receipt_cid
           /\ ~reqs[r1].resp.replayed /\ ~reqs[r1].resp.replay_header
           /\ reqs[r2].resp.replayed /\ reqs[r2].resp.replay_header
           /\ reqs[r2].trace = <<>>
           /\ StageCid(r2, 3) \notin DOMAIN store.receipts
           /\ reqs[r1].resp.receipt_cid \in DOMAIN store.receipts

C2_Witness ==
    \E r1, r2 \in Arrived :
        /\ Processed(r1) /\ Processed(r2)
        /\ SameCanon(r1, r2)
        /\ FirstOfCanon(r1)
        /\ r1 \in reqs[r2].after
        /\ reqs[r2].resp.replay_header
        /\ reqs[r1].trace # <<>>

StageRank(stage) ==
    IF stage = "WA" THEN 1 ELSE IF stage = "CHECK" THEN 2
    ELSE IF stage = "TR" THEN 3 ELSE 4

\* C3: within one request the stages run in the order WA, CHECK, TR, WF: the
\* stages that ran are in that order with none run twice, WA is the first,
\* CHECK follows WA directly, TR follows CHECK directly, and WF follows TR (or
\* CHECK, when CHECK short-circuited); the stored WF receipt carries the wa_cid
\* and the tr_cid that WA and TR of the same request produced.
C3_StageOrder ==
    \A r \in Arrived :
        LET t == reqs[r].trace IN
        /\ \A i \in 1..Len(t) :
            /\ i = 1 => t[i] = "WA"
            /\ i > 1 => StageRank(t[i - 1]) < StageRank(t[i])
            /\ t[i] = "CHECK" => (i > 1 /\ t[i - 1] = "WA")
            /\ t[i] = "TR" => (i > 1 /\ t[i - 1] = "CHECK")
            /\ t[i] = "WF" =>
                (i > 1 /\ (t[i - 1] = "TR"
                           \/ (t[i - 1] = "CHECK" /\ reqs[r].short_circuited)))
        /\ (Len(t) > 0 /\ t[Len(t)] = "WF") =>
            /\ StageCid(r, 3) \in DOMAIN store.receipts
            /\ store.receipts[StageCid(r, 3)].wa_cid = reqs[r].wa_cid
            /\ store.receipts[StageCid(r, 3)].tr_cid = reqs[r].tr_cid
            /\ reqs[r].wa_cid = StageCid(r, 1)
            /\ ~reqs[r].short_circuited => reqs[r].tr_cid = StageCid(r, 2)

C3_Witness ==
    \E r \in Arrived :
        /\ reqs[r].trace = <<"WA", "CHECK", "TR", "WF">>
        /\ StageCid(r, 3) \in DOMAIN store.receipts
        /\ store.receipts[StageCid(r, 3)].tr_cid = StageCid(r, 2)

InSeq(x, q) == \E i \in 1..Len(q) : q[i] = x

\* C4: when CHECK decides Deny it short-circuits: TR is never run for that
\* request, and the request ends with a WF receipt whose decision is Deny; the
\* conformance driver returns "deny" / POLICY_DENIED without running TR.
C4_DenyShortCircuit ==
    /\ \A r \in Arrived :
        reqs[r].decision = "Deny" =>
            /\ reqs[r].short_circuited
            /\ ~InSeq("TR", reqs[r].trace)
            /\ reqs[r].pc \in {"wf", "respond", "done"}
            /\ reqs[r].pc \in {"respond", "done"} =>
                /\ InSeq("WF", reqs[r].trace)
                /\ StageCid(r, 3) \in DOMAIN store.receipts
                /\ store.receipts[StageCid(r, 3)].decision = "Deny"
                /\ reqs[r].result.decision = "Deny"
            /\ reqs[r].pc = "done" =>
                \/ reqs[r].resp.status = 403
                \/ reqs[r].resp.status = 200 /\ reqs[r].resp.decision = "Deny"
    /\ vec.decision = "Deny" =>
            /\ ~InSeq("TR", vec.trace)
            /\ vec.pc = "done"
            /\ vec.obs = [decision |-> "deny", code |-> "POLICY_DENIED"]

C4_Witness ==
    \E r \in Arrived :
        /\ reqs[r].pc = "done"
        /\ reqs[r].decision = "Deny"
        /\ reqs[r].trace = <<"WA", "CHECK", "WF">>
        /\ store.receipts[StageCid(r, 3)].decision = "Deny"

\* C5: TR runs exactly when the decision of CHECK is Allow or Require: a run of
\* TR has such a decision behind it, and a request with such a decision is not
\* short-circuited, reaches WF only through TR, and, for Require, does not end
\* in a Deny WF; the conformance driver runs TR on both decisions too.
C5_TransitionIffAllowOrRequire ==
    /\ \A r \in Arrived :
        /\ InSeq("TR", reqs[r].trace) => reqs[r].decision \in {"Allow", "Require"}
        /\ reqs[r].decision \in {"Allow", "Require"} =>
            /\ ~reqs[r].short_circuited
            /\ reqs[r].pc \in {"tr", "wf", "respond", "done"}
            /\ reqs[r].pc # "tr" => InSeq("TR", reqs[r].trace)
            /\ reqs[r].pc \in {"respond", "done"} =>
                    reqs[r].result.decision = reqs[r].decision
    /\ InSeq("TR", vec.trace) => vec.decision \in {"Allow", "Require"}
    /\ vec.decision \in {"Allow", "Require"} =>
            /\ vec.pc \in {"tr", "done"}
            /\ vec.pc = "done" => InSeq("TR", vec.trace)

C5_Witness ==
    \E r \in Arrived :
        /\ reqs[r].pc = "done"
        /\ reqs[r].decision = "Require"
        /\ reqs[r].trace = <<"WA", "CHECK", "TR", "WF">>
        /\ reqs[r].resp.decision = "Require"

RateChecked(r) == reqs[r].rate.checked
Limited(r) == reqs[r].rate.limited

\* C9: under per_minute(N), a fingerprint has at no time more than N requests
\* admitted within the last 60 s; a request that finds N requests of its
\* fingerprint admitted within the window, and no other, is limited; a limited
\* request is answered 429 with a Retry-After of at least 1 and is not passed
\* to the pipeline: it runs no stage, gets no result and stores no receipt.
C9_CanonRateLimit ==
    canon_rate_limiter # 0 =>
        /\ \A fp \in DOMAIN admitted :
                Len(InWindow(admitted[fp])) <= canon_rate_limiter
        /\ \A r \in Arrived :
            /\ reqs[r].pc # "rate" => RateChecked(r)
            /\ RateChecked(r) =>
                /\ Limited(r) <=> reqs[r].rate.seen >= canon_rate_limiter
                /\ Limited(r) <=> reqs[r].resp.status = 429
                /\ Limited(r) =>
                    /\ reqs[r].pc = "done"
                    /\ reqs[r].resp.retry_after >= 1
                    /\ reqs[r].trace = <<>>
                    /\ reqs[r].result = NoResult
                    /\ StageCid(r, 3) \notin DOMAIN store.receipts

C9_Witness ==
    \E r \in Arrived :
        /\ canon_rate_limiter # 0
        /\ Limited(r)
        /\ reqs[r].rate.seen = canon_rate_limiter
        /\ reqs[r].resp.status = 429
        /\ reqs[r].resp.retry_after = 1

\* C10: the answer of the limiter to a request is the answer of a limiter
\* that has seen the requests of that fingerprint alone: requests of another
\* fingerprint, a limited one included, never limit it.
C10_RateLimitFairness ==
    \A r \in Arrived :
        RateChecked(r) => (Limited(r) <=> reqs[r].rate.solo_limited)

C10_Witness ==
    \E ra, rb \in Arrived :
        /\ RateChecked(ra) /\ RateChecked(rb)
        /\ ~SameCanon(ra, rb)
        /\ reqs[ra].chip.type = reqs[rb].chip.type
        /\ Limited(ra)
        /\ ra \in reqs[rb].after
        /\ ~Limited(rb)
        /\ reqs[rb].pc = "done"
        /\ Len(InWindow(BucketOf(buckets, rate_key(reqs[ra].chip)))) = canon_rate_limiter

\* C12: a receipt built by append_stage calls verifies, and after a change of
\* any persisted field of any stage entry, or after reordering, removing or
\* inserting a stage, verify_auth_chain returns false.
C12_AuthChainSoundness ==
    /\ verify_auth_chain(receipt)
    /\ altered.kind # "none" => ~verify_auth_chain(altered.stages)

\* C11: on every read path, a stored receipt whose auth chain does not verify
\* is never returned as a success; the answer is TAMPER_DETECTED, with HTTP 422
\* on the HTTP routes.
C11_TamperDetectedOnRead ==
    (read.fetched /\ read.chain # "ok") =>
        /\ read.body = "error"
        /\ read.code = "TAMPER_DETECTED"
        /\ read.route \in HttpRoutes => read.status = 422

\* the ten checks of spec 4.3 in their order: whether the k-th is violated
\* by the input, and the codes it reports
CheckViolated(k, b) ==
    CASE k = 1 -> ~b.utf8
      [] k = 2 -> b.root # "object"
      [] k = 3 -> b.duplicate_key
      [] k = 4 -> b.too_deep
      [] k = 5 -> b.array_too_long
      [] k = 6 -> b.envelope_missing
      [] k = 7 -> b.raw_float
      [] k = 8 -> b.big_int
      [] k = 9 -> b.bad_num_atom
      [] k = 10 -> b.control_char

CheckCodes(k, b) ==
    CASE k = 1 -> {"KNOCK-005"}
      [] k = 2 -> IF b.root = "non_object" THEN {"KNOCK-007"} ELSE {"KNOCK-010"}
      [] k = 3 -> {"KNOCK-004"}
      [] k = 4 -> {"KNOCK-002"}
      [] k = 5 -> {"KNOCK-003"}
      [] k = 6 -> {"KNOCK-006"}
      [] k = 7 -> {"KNOCK-008"}
      [] k = 8 -> BigIntCodes
      [] k = 9 -> {"KNOCK-009"}
      [] k = 10 -> {"KNOCK-011"}

KnockChecks == 1..10

\* C14: knock applies its ten checks in order and reports the code of the
\* earliest check the input violates (none: the input is accepted); bytes that
\* are valid UTF-8 but malformed JSON are never reported as KNOCK-005.
C14_KnockFirstMatch ==
    knock_out # NoKnock =>
        /\ knock_out[1] = KnockOk <=> \A k \in KnockChecks : ~CheckViolated(k, knock_in)
        /\ \A k \in KnockChecks :
              (CheckViolated(k, knock_in)
                  /\ \A j \in 1..(k - 1) : ~CheckViolated(j, knock_in))
              => knock_out[1] \in CheckCodes(k, knock_in)
        /\ (knock_in.utf8 /\ knock_in.root = "malformed") => knock_out[1] # "KNOCK-005"

\* an input that violates an early and a late check is reported with the early one
C14_Witness ==
    /\ knock_out = <<"KNOCK-004">>
    /\ knock_in.duplicate_key /\ knock_in.envelope_missing /\ knock_in.control_char

\* the body of the write does not pass knock
KnockFails(w) == knock(writes[w].body.seen) # KnockOk

\* the answer carries the cid of a stored deny receipt with decision Deny
CarriesDenyReceipt(w) ==
    /\ writes[w].resp.decision = "Deny"
    /\ \E rcpt \in deny_receipts :
          /\ writes[w].resp.receipt_cid = <<rcpt.cid>>
          /\ rcpt.type = "ubl/knock.deny.v1"
          /\ rcpt.decision = "Deny"
          /\ rcpt.knock_cid = <<"b3", writes[w].body.bytes>>

\* process_knock_rejection failed: the answer is the error of the pipeline
StoreFailed(w) == writes[w].resp.code = "INTERNAL_ERROR"

NoValidCredential(w) ==
    /\ ~matches_api_key(write_access_policy, writes[w].cred)
    /\ writes[w].token = <<>>
    /\ writes[w].session = NoSession

\* the policy lets the chip of the write in without a credential
OpenToAll(w) ==
    \/ ~write_access_policy.auth_required /\ write_access_policy.api_keys = {}
    \/ writes[w].body.chip.world \in PublicWorlds
            /\ writes[w].body.chip.type \in PublicTypes
    \/ is_onboarding_type(writes[w].body.chip.type)

\* C15: a write that presents no valid credential reaches the pipeline only if
\* the policy is open (auth_required false and no API keys), or its (@world,
\* @type) is an allowed public pair, or its @type is an onboarding type.
C15_WriteAuthorization ==
    \A w \in Written :
        (writes[w].req # 0 /\ NoValidCredential(w)) => OpenToAll(w)

\* the token the write relies on: the bearer it presents or that of its session
ReliedOn(w) ==
    IF writes[w].route = "mcp_ws" THEN writes[w].session
    ELSE IF writes[w].cred.kind = "bearer"
    THEN LET found == {t \in TokenChips : t.id = writes[w].cred.value}
         IN  IF found = {} THEN <<>> ELSE <<CHOOSE t \in found : TRUE>>
    ELSE <<>>

\* the credentials of the write are missing or invalid
MissingOrInvalid(w) ==
    \/ writes[w].route # "mcp_ws" /\ writes[w].cred.kind = "none"
    \/ writes[w].cred.kind = "api_key"
            /\ ~matches_api_key(write_access_policy, writes[w].cred)
    \/ writes[w].cred.kind = "bearer" /\ (ReliedOn(w) = <<>> \/ writes[w].stale)

\* the bearer token of the write is valid but does not cover it
ValidButNotCovering(w) ==
    /\ ReliedOn(w) # <<>>
    /\ ~writes[w].stale
    /\ \/ ~scope_allows_any(ReliedOn(w)[1].scope, {"write", "chip:write", "mcp:write"})
       \/ ~world_scope_allows(ReliedOn(w)[1].world, writes[w].body.chip.world)

\* the write is denied with the code and the status, with a deny receipt, and
\* its chip never reaches the pipeline
DeniedWith(w, status, code) ==
    /\ writes[w].req = 0
    /\ writes[w].pc = "done" =>
          \/ StoreFailed(w)
          \/ /\ writes[w].resp.status = status
             /\ writes[w].resp.code = code
             /\ CarriesDenyReceipt(w)

\* C16: a protected write with missing or invalid credentials is answered 401
\* UNAUTHORIZED, one whose bearer token is valid but whose world or scope does
\* not cover it 403 POLICY_DENIED; both answers carry decision Deny and the
\* cid of a stored deny receipt, and the chip is not processed.
C16_AuthFailureClassification ==
    \A w \in Written :
        ~KnockFails(w) =>
            /\ (MissingOrInvalid(w) /\ ~OpenToAll(w)) => DeniedWith(w, 401, "UNAUTHORIZED")
            /\ ValidButNotCovering(w) => DeniedWith(w, 403, "POLICY_DENIED")

\* C17: a write authenticated by a bearer token is accepted only if the world
\* of the token chip prefixes the target world of the chip, on POST /v1/chips,
\* on POST /mcp/rpc and in an authenticated MCP WebSocket session alike.
C17_BearerWorldScope ==
    \A w \in Written :
        (writes[w].req # 0 /\ (writes[w].token # <<>> \/ writes[w].session # NoSession)) =>
            world_scope_allows(ReliedOn(w)[1].world, writes[w].body.chip.world)

\* C18: once a ubl/revoke chip aimed at the cid of a token or of its user is
\* stored, or the token has expired, no write that arrives later is authorized
\* by that token.
C18_RevocationAndExpiry ==
    \A w \in Written :
        (writes[w].stale /\ (writes[w].token # <<>> \/ writes[w].session # NoSession)) =>
            writes[w].req = 0

\* the filters a query supplies
SuppliedFilters(query) ==
    {f \in {"world", "stage", "decision", "code", "type", "actor"} :
        CASE f = "world" -> query.world # NoValue
          [] f = "stage" -> query.stage # NoValue
          [] f = "decision" -> query.decision # NoValue
          [] f = "code" -> query.code # NoValue
          [] f = "type" -> query.chip_type # NoValue
          [] OTHER -> query.actor # NoValue}

\* one filter of the query is satisfied by the event: world, code and actor by
\* the same text, stage and decision whatever the case of their letters, type
\* by the same text or by the wildcard
SatisfiesFilter(f, event, query) ==
    CASE f = "world" -> event.world = query.world[1]
      [] f = "stage" ->
            to_ascii_uppercase(event.stage) = to_ascii_uppercase(query.stage[1])
      [] f = "decision" ->
            /\ event.decision # NoValue
            /\ to_ascii_uppercase(event.decision[1]) = to_ascii_uppercase(query.decision[1])
      [] f = "code" -> event.code = Some(query.code[1])
      [] f = "type" -> query.chip_type[1] \in {"*", event.chip_type}
      [] OTHER -> event.actor = Some(query.actor[1])

SatisfiesEvery(event, query) ==
    \A f \in SuppliedFilters(query) : SatisfiesFilter(f, event, query)

EmittedFrom(origin) == SelectSeq(stream.emitted, LAMBDA y : y.origin = origin)

C20_LaggedAndClosed ==
    /\ events_stream_dropped["client_lagged"] = stream.lagged
    /\ stream.lagged > 0 =>
            /\ stream.pc = "ended"
            /\ Len(stream.emitted) = stream.lagged_at
    /\ stream.closed => stream.pc = "ended"

\* C21: with an event store configured and no append refused by the store,
\* every receipt event the ingestion task's receiver has gone past is in the
\* event store as its normalized envelope, in the order of publication.
C21_DurableEventAppend ==
    (event_store # NoValue /\ ~ingest.append_failed) =>
        event_store[1] = [at \in 1..(ingest.next - 1) |-> to_hub_event(event_bus.sent[at])]

\* the four values the id of a hub event is made of
IdTuple(event) ==
    <<event.receipt_cid, normalize_stage(event.pipeline_stage), event.input_cid,
      event.output_cid>>

\* C23: two receipt events with the same receipt_cid, normalized stage,
\* input_cid and output_cid get the same @id from to_hub_event whatever their
\* other fields are, and the same receipt event gets the same @id when it is
\* broadcast again.
C23_EventIdDeterminism ==
    pure_out # <<>> =>
        /\ IdTuple(pure_in[1].first) = IdTuple(pure_in[1].second)
                => pure_out[1].first[1].id = pure_out[1].second[1].id
        /\ pure_out[1].again # <<>>
                => pure_out[1].again[1].id = pure_out[1].first[1].id

\* two events that agree in the four values but differ in the spelling of the
\* stage, the decision and the actor, and the first of them broadcast twice
C23_Witness ==
    /\ pure_out # <<>>
    /\ pure_out[1].again # <<>>
    /\ IdTuple(pure_in[1].first) = IdTuple(pure_in[1].second)
    /\ pure_in[1].first.pipeline_stage # pure_in[1].second.pipeline_stage
    /\ pure_in[1].first.decision # pure_in[1].second.decision
    /\ pure_in[1].first.actor # pure_in[1].second.actor

\* C24: the stage of every hub event that to_hub_event produces is one of
\* KNOCK, WA, CHECK, TR, WF, REGISTRY.
C24_StageVocabulary ==
    pure_out # <<>> =>
        pure_out[1].first[1].stage \in {"KNOCK", "WA", "CHECK", "TR", "WF", "REGISTRY"}

\* get_receipt returns a receipt for this cid
Stands(cid) == cid \in DOMAIN store.receipts /\ get_receipt(store, cid) = store.receipts[cid]

\* get_receipt returns the receipt of this cid text
Returned(cid_text) ==
    \E cid \in DOMAIN store.receipts : receipt_cid_text(cid) = cid_text /\ Stands(cid)

\* the outbox rows a worker holds or has handed to the delivery closure
ObservedRows ==
    UNION {{workers[w].batch[i] : i \in 1..Len(workers[w].batch)} : w \in Workers}
        \cup (IF last_delivery.id = 0 THEN {} ELSE {last_delivery.id})

\* C22: every receipt event on the broadcast channel, every envelope in the
\* event store, every event a stream emitted and every outbox row a worker
\* holds or has delivered belongs to a receipt that the WF commit has stored:
\* get_receipt returns it.
C22_CommitPrecedesEmission ==
    /\ \A at \in 1..Len(event_bus.sent) : Returned(event_bus.sent[at].receipt_cid)
    /\ event_store # NoValue =>
            \A i \in 1..Len(event_store[1]) : Returned(event_store[1][i].receipt_cid)
    /\ \A i \in 1..Len(stream.emitted) : Returned(stream.emitted[i].event.receipt_cid)
    /\ \A id \in ObservedRows :
            /\ id \in 1..Len(store.outbox)
            /\ Stands(store.outbox[id].payload)

\* two requests are in the pipeline at once; the event of the one that has
\* committed is in the event store and on a stream, and its outbox row has
\* been delivered, while the other has not reached WF
C22_Witness ==
    /\ \E r \in Arrived : reqs[r].pc \in {"wa", "check", "tr", "wf"}
    /\ event_store # NoValue /\ Len(event_store[1]) >= 1
    /\ \E i \in 1..Len(stream.emitted) : stream.emitted[i].origin = "live"
    /\ last_delivery.id # 0

\* the request was cancelled, and its WF commit had succeeded by then
CancelledAfterCommit(r) ==
    /\ reqs[r].pc = "done"
    /\ reqs[r].resp = NoResponse
    /\ reqs[r].trace # <<>>
    /\ reqs[r].trace[Len(reqs[r].trace)] = "WF"

\* C25: when a request is cancelled after its WF commit succeeded, the receipt
\* row, the chain edges, the outbox row and the idempotency entry of that
\* commit stay in the durable store, and a canonical-equivalent request that
\* arrives later and is processed replays that receipt.
C25_CancellationAfterCommit ==
    \A r \in Arrived :
        CancelledAfterCommit(r) =>
            /\ StageCid(r, 3) \in DOMAIN store.receipts
            /\ ChainOf(StageCid(r, 3)) \subseteq store.chain
            /\ \E id \in 1..Len(store.outbox) : store.outbox[id].payload = StageCid(r, 3)
            /\ IdemKeyOf(reqs[r].chip) \in DOMAIN store.idem
            /\ FirstOfCanon(r) =>
                /\ store.idem[IdemKeyOf(reqs[r].chip)] = StageCid(r, 3)
                /\ \A r2 \in Arrived :
                    (SameCanon(r, r2) /\ r \in reqs[r2].after /\ Processed(r2))
                        => /\ reqs[r2].resp.replayed
                           /\ reqs[r2].resp.receipt_cid = StageCid(r, 3)
                           /\ reqs[r2].trace = <<>>

\* a request was cancelled between its WF commit and its answer, and a later
\* request of the same canonical form has been answered
C25_Witness ==
    \E r, r2 \in Arrived :
        /\ CancelledAfterCommit(r)
        /\ FirstOfCanon(r)
        /\ SameCanon(r, r2) /\ r \in reqs[r2].after /\ Processed(r2)

\* the step that ends a successful commit under a cid that was not stored
FirstCommitStep ==
    /\ tx # <<>> /\ tx' = <<>>
    /\ ~tx[1].fail_after_receipt_write
    /\ tx[1].receipt_cid \notin DOMAIN store.receipts

\* C26: no step changes or removes the body get_receipt returns for a stored
\* receipt_cid, a commit under that cid included, and the first successful
\* commit under a cid stores the body it was given: after any sequence of
\* commits get_receipt returns the body of the first successful one.
C26_ReceiptImmutability ==
    [][/\ \A cid \in DOMAIN store.receipts :
            /\ cid \in DOMAIN store'.receipts
            /\ get_receipt(store', cid) = get_receipt(store, cid)
       /\ FirstCommitStep =>
            get_receipt(store', tx[1].receipt_cid) = tx[1].receipt_json]_vars

\* a second successful commit under a stored cid brought another body, and
\* get_receipt still returns the first one
C26_Witness ==
    /\ last_commit # <<>>
    /\ last_commit[1].ok
    /\ last_commit[1].input.receipt_cid \in DOMAIN store.receipts
    /\ get_receipt(store, last_commit[1].input.receipt_cid)
            # last_commit[1].input.receipt_json

\* C27: every failure answer to a chip submission carries the knock_cid of
\* the raw body: the answers to a knock rejection and to an authorization
\* denial, and the 429 and the pipeline-error answers to a request that got
\* past them.
C27_FailureCarriesCid ==
    /\ \A w \in Written :
            writes[w].resp.status \notin {0, 200}
                => writes[w].resp.knock_cid = Some(writes[w].knock_cid)
    /\ \A r \in Arrived :
            (reqs[r].pc = "done" /\ reqs[r].resp.status \notin {0, 200})
                => (reqs[r].resp.knock_cid # NoValue
                    /\ reqs[r].resp.knock_cid = reqs[r].knock_cid)

\* C28: canonicalisation is idempotent: for every JSON value v that rho
\* accepts, rho(rho(v)) = rho(v); the values include objects with null
\* members, arrays with null elements, nested objects with unsorted keys and
\* the i64 boundary values.
C28_RhoIdempotent ==
    Len(pure_out) = 2 => pure_out[2] = pure_out[1]

\* the array vector: keys of the inner object sorted, the null element kept
C28_Witness ==
    /\ pure_in = Some(RhoVectors.array)
    /\ Len(pure_out) = 2
    /\ pure_out[1] = JArr(<<JObj(<< <<"a", JNum("1")>>, <<"b", JNum("2")>> >>),
                            JNull, JNum("3")>>)
    /\ pure_out[1] # pure_in[1]

\* the value at body.actor.did, body.did and body.owner_did, in that order
DidPlaces(body) ==
    LET at(v, key) ==
            IF v = NoValue \/ v[1][1] # "obj" THEN NoValue ELSE member(v[1][2], key)
    IN  <<at(at(body, "actor"), "did"), at(body, "did"), at(body, "owner_did")>>

\* a text beginning with "did:"
Qualifies(opt) ==
    /\ opt # NoValue
    /\ opt[1][1] = "str"
    /\ opt[1][2] \in {"did:key:zActor", "did:key:zRoot", "did:key:zOwner"}

StableClaims == {"installation_key", "client_pubkey", "device_id", "session_id", "kid"}

\* the stable actor claims that are texts, and the transport hints given
ClaimsAndHints(body, hint) ==
    LET at(v, key) ==
            IF v = NoValue \/ v[1][1] # "obj" THEN NoValue ELSE member(v[1][2], key)
        claim(key) == at(at(body, "actor"), key)
    IN  {<<key, claim(key)[1][2]>> :
            key \in {k \in StableClaims : claim(k) # NoValue /\ claim(k)[1][1] = "str"}}
        \cup (IF hint = NoValue THEN {}
              ELSE {<<key, hint[1][key][1]>> :
                        key \in {k \in {"ip_prefix", "user_agent_hash"} :
                                    hint[1][k] # NoValue}})

\* C29: resolve_subject_did returns the first text beginning with "did:"
\* among body.actor.did, body.did and body.owner_did, in that order; when
\* none qualifies, the result is the anonymous DID "did:ubl:anon:" + CID, a
\* function of the five stable actor claims and the two transport hints
\* alone; resolving again gives the same DID.
C29_SubjectDidPriority ==
    pure_out # <<>> =>
        LET body == pure_in[1].body
            places == DidPlaces(body)
            qualifying == {i \in 1..3 : Qualifies(places[i])}
            first == CHOOSE i \in qualifying : \A j \in qualifying : i <= j
        IN  /\ \A i \in 1..Len(pure_out) : pure_out[i] = pure_out[1]
            /\ IF qualifying # {}
               THEN pure_out[1] = <<places[first][1][2]>>
               ELSE pure_out[1] =
                        <<"did:ubl:anon:",
                          <<"b3", ClaimsAndHints(body, pure_in[1].hint)>> >>

\* actor.did is a text without "did:", did is a number, owner_did qualifies
C29_Witness ==
    /\ pure_in # <<>>
    /\ pure_in[1].body =
            Some(JObj(<< <<"actor", JObj(<< <<"did", JStr("zActor")>>,
                                            <<"installation_key", JStr("inst-123")>> >>)>>,
                         <<"did", JNum("2")>>,
                         <<"owner_did", JStr("did:key:zOwner")>> >>))
    /\ pure_out = <<<<"did:key:zOwner">>>>

\* the constraints on an adapter declaration that its parsing enforces, in
\* the listed order, each with its code: the payload decodes (an object with
\* a text wasm_sha256), abi_version is present, abi_version is "1.0",
\* wasm_sha256 is 64 hex characters
AdapterViolations(adapter) ==
    LET text(key) ==
            IF adapter[1] # "obj" \/ member(adapter[2], key) = NoValue
                   \/ member(adapter[2], key)[1][1] # "str"
            THEN NoValue
            ELSE Some(member(adapter[2], key)[1][2])
    IN  << [code |-> "WASM_ABI_INVALID_PAYLOAD",
            violated |-> adapter[1] # "obj" \/ text("wasm_sha256") = NoValue],
           [code |-> "WASM_ABI_MISSING_VERSION",
            violated |-> text("abi_version") = NoValue],
           [code |-> "WASM_ABI_UNSUPPORTED_VERSION",
            violated |-> text("abi_version") # NoValue /\ text("abi_version") # Some("1.0")],
           [code |-> "WASM_VERIFY_HASH_MISMATCH",
            violated |-> text("wasm_sha256") # NoValue
                            /\ text("wasm_sha256") # Some(Sha256Hex)] >>

\* C30: the adapter constraints are enforced in the listed order, so a
\* declaration violating several of them fails with the code of the
\* earliest one: an unsupported abi_version together with a wasm_sha256
\* that is not hex yields WASM_ABI_UNSUPPORTED_VERSION.
C30_WasmCheckOrder ==
    (pure_out # <<>> /\ value_get(pure_in[1], "adapter") # NoValue) =>
        LET checks == AdapterViolations(value_get(pure_in[1], "adapter")[1])
            violated == {i \in 1..Len(checks) : checks[i].violated}
            first == CHOOSE i \in violated : \A j \in violated : i <= j
        IN  IF violated = {} THEN pure_out[1].ok
            ELSE ~pure_out[1].ok /\ pure_out[1].code = checks[first].code

\* the codes of the capability, attestation and required-claim failures
WasmPolicyCodes ==
    {"WASM_CAPABILITY_DENIED_NETWORK", "WASM_CAPABILITY_DENIED",
     "WASM_VERIFY_SIGNATURE_INVALID", "WASM_VERIFY_TRUST_ANCHOR_MISMATCH",
     "WASM_RECEIPT_BINDING_MISSING_CLAIM"}

\* C31: a WASM capability, attestation or required-claim failure at TR is a
\* policy deny: the stage fails with PolicyDenied and the HTTP status is 403.
C31_WasmPolicyDeny ==
    (pure_out # <<>> /\ pure_out[1].code \in WasmPolicyCodes) =>
        /\ pure_out[1].kind = "PolicyDenied"
        /\ Len(pure_out) = 2 => pure_out[2] = 403

\* C32: for every adapter module, the one whose entry point loops for ever
\* included, stage_transition terminates under the finite fuel budget (the
\* declared fuel_budget or the default); when the budget is exhausted it ends
\* with WASM_RESOURCE_FUEL_EXHAUSTED and no TR receipt is produced.
C32_AdapterTerminates ==
    /\ <>(pure_out # <<>> /\ pure_out[1].code # None)
    /\ [](pure_out # <<>> =>
            /\ (pure_in[1].module = "infinite_loop" /\ pure_out[1].code # None)
                    => (pure_out[1].code = "WASM_RESOURCE_FUEL_EXHAUSTED"
                        /\ pure_out[1].fuel = 0)
            /\ pure_out[1].code = "WASM_RESOURCE_FUEL_EXHAUSTED" => pure_out[1].tr = NoValue
            /\ pure_out[1].tr # NoValue => pure_out[1].code = "OK")

\* the looping module has used its whole declared budget and was stopped
C32_Witness ==
    /\ pure_in = Some([module |-> "infinite_loop", fuel_budget |-> Some(MaxFuel)])
    /\ pure_out # <<>>
    /\ pure_out[1].code = "WASM_RESOURCE_FUEL_EXHAUSTED"
    /\ pure_out[1].budget = MaxFuel
    /\ pure_out[1].fuel = 0
    /\ pure_out[1].tr = NoValue

Trimmed(t) ==
    LET solid == {i \in 1..Len(t) : t[i] # " "}
        lo == CHOOSE i \in solid : \A j \in solid : i <= j
        hi == CHOOSE i \in solid : \A j \in solid : j <= i
        kept == {k \in lo..hi : t[k] # "/"}
        last == CHOOSE k \in kept : \A j \in kept : j <= k
    IN  IF solid = {} THEN <<>>
        ELSE IF kept = {} THEN <<>>
        ELSE [i \in 1..(last - lo + 1) |-> t[lo + i - 1]]

\* target is scope followed by "/" and more
PathPrefix(scope, target) ==
    /\ Len(target) > Len(scope)
    /\ \A i \in 1..Len(scope) : target[i] = scope[i]
    /\ target[Len(scope) + 1] = "/"

\* C34: world_scope_allows(scope, target) holds exactly when, after trimming
\* blanks and trailing slashes, both are non-empty and scope is "*", or
\* target equals scope, or target starts with scope followed by "/"; a scope
\* that is a plain prefix of the target but not a path prefix does not
\* authorize it.
C34_WorldPrefixContainment ==
    pure_out # <<>> =>
        LET scope == Trimmed(pure_in[1].scope)
            target == Trimmed(pure_in[1].target)
        IN  pure_out[1] <=>
                /\ scope # <<>> /\ target # <<>>
                /\ \/ scope = <<"*">>
                   \/ target = scope
                   \/ PathPrefix(scope, target)

\* scope "a/a" is a plain prefix of target "a/aa/", not a path prefix
C34_Witness ==
    /\ pure_in = Some([scope |-> <<"a", "/", "a">>,
                       target |-> <<"a", "/", "a", "a", "/">>])
    /\ pure_out = <<FALSE>>

\* the entries of the limiter's buckets: the quota consumed so far
RECURSIVE QuotaUsed(_, _)
QuotaUsed(map, keys) ==
    IF keys = {} THEN 0
    ELSE LET k == CHOOSE x \in keys : TRUE
         IN  Len(map[k]) + QuotaUsed(map, keys \ {k})

\* the write was stopped by knock or by the authorization
StoppedAtEdge(w) == writes[w].pc = "done" /\ writes[w].req = 0

Deliveries(at) ==
    {i \in 1..Len(stream.emitted) :
        stream.emitted[i].event = to_hub_event(event_bus.sent[at])}

\* the message was published once the request had been received, its hub
\* event is that of no other message, and the stream is past it
PublishedAfterRequest(at) ==
    /\ stream.pc \in {"historical", "live", "ended"}
    /\ stream.historical = <<>>
    /\ at > stream.received
    /\ at < stream.next
    /\ \A b \in 1..Len(event_bus.sent) :
            b # at => to_hub_event(event_bus.sent[b]) # to_hub_event(event_bus.sent[at])

\* C36: every matching event published after a GET /v1/events request has
\* been received is delivered to that subscriber exactly once, in the
\* historical drain or in the live relay; none is lost between the
\* historical query and the subscription, none is delivered in both.
C36_NoGapNoDuplicate ==
    \A at \in 1..Len(event_bus.sent) :
        (/\ PublishedAfterRequest(at)
         /\ SatisfiesEvery(to_hub_event(event_bus.sent[at]), stream.query))
        => Cardinality(Deliveries(at)) = 1

\* the calls of check for one token, in order
ChecksOf(token_id) == SelectSeq(mcp_checks, LAMBDA call : call.token_id = token_id)

\* what a limiter that sees those calls alone returns to each of them
RECURSIVE AloneReturns(_, _, _)
AloneReturns(calls, bucket, per_minute) ==
    IF calls = <<>> THEN <<>>
    ELSE LET result == check(bucket, per_minute, Head(calls).at)
         IN  <<result.returned>> \o AloneReturns(Tail(calls), result.bucket, per_minute)

\* the admitted calls of a token in the window that ends with the call `last`
AdmittedInWindow(token_id, last) ==
    {i \in 1..Len(mcp_checks) :
        /\ mcp_checks[i].token_id = token_id
        /\ mcp_checks[i].returned = NoValue
        /\ mcp_checks[i].at <= mcp_checks[last].at
        /\ mcp_checks[last].at - mcp_checks[i].at < WindowSecs}

McpBound ==
    \A token_id \in McpTokenIds :
        /\ Len(mcp_token_rate_limiter.buckets[token_id]) <= mcp_token_rate_limiter.per_minute
        /\ \A last \in 1..Len(mcp_checks) :
               Cardinality(AdmittedInWindow(token_id, last))
                   <= mcp_token_rate_limiter.per_minute
        /\ [i \in 1..Len(ChecksOf(token_id)) |-> ChecksOf(token_id)[i].returned]
               = AloneReturns(ChecksOf(token_id), <<>>, mcp_token_rate_limiter.per_minute)
        /\ \A i \in 1..Len(mcp_checks) :
               mcp_checks[i].returned # NoValue => mcp_checks[i].returned[1] >= 1

McpRejectionKeepsBuckets ==
    (/\ Len(mcp_checks') = Len(mcp_checks) + 1
     /\ mcp_checks'[Len(mcp_checks')].returned # NoValue)
    => mcp_token_rate_limiter' = mcp_token_rate_limiter

McpOtherBucketsKept ==
    Len(mcp_checks') = Len(mcp_checks) + 1
    => \A token_id \in McpTokenIds \ {mcp_checks'[Len(mcp_checks')].token_id} :
           mcp_token_rate_limiter'.buckets[token_id]
               = mcp_token_rate_limiter.buckets[token_id]

\* C37: for every token and every sequence of check calls, at most
\* per_minute calls are admitted in any window of 60 s and the token's
\* bucket never holds more than per_minute timestamps; a rejected call
\* leaves the bucket unchanged and returns a retry_after of at least 1; the
\* calls for one token never change what another token is answered.
C37_McpTokenBound ==
    /\ []McpBound
    /\ [][McpRejectionKeepsBuckets /\ McpOtherBucketsKept]_vars

\* a call was rejected after time had passed, a later call of the same token
\* was admitted once the window had moved on, and the other token was
\* admitted in between
C37_Witness ==
    \E i, j, k \in 1..Len(mcp_checks) :
        /\ i < j /\ j < k
        /\ mcp_checks[i].token_id = mcp_checks[k].token_id
        /\ mcp_checks[j].token_id # mcp_checks[i].token_id
        /\ mcp_checks[i].returned # NoValue
        /\ mcp_checks[i].at > 0
        /\ mcp_checks[j].returned = NoValue
        /\ mcp_checks[k].returned = NoValue

\* without an endpoint, a delivery of an emit_receipt event makes no HTTP
\* call, succeeds, and marks the event delivered on its first attempt
DroppedWithoutEndpoint ==
    \A w \in Workers :
        (/\ DeliveryStep(w)
         /\ ~outbox_endpoint
         /\ store.outbox[Handed(w)].event_type = "emit_receipt")
        => /\ last_delivery'.id = Handed(w)
           /\ ~last_delivery'.http
           /\ last_delivery'.response = None
           /\ last_delivery'.result = "ok"
           /\ store.outbox[Handed(w)].attempts = 0
           /\ store'.outbox[Handed(w)].attempts = 0
           /\ store'.outbox[Handed(w)].state = "delivered"

\* C38: when no outbox endpoint is configured, deliver_emit_receipt_event
\* makes no HTTP call and returns success, so every emit_receipt event is
\* marked delivered and leaves the pending set on its first attempt, without
\* having been sent anywhere.
C38_NoEndpointDrops ==
    /\ [][DroppedWithoutEndpoint]_vars
    /\ [](~outbox_endpoint =>
            \A id \in OutboxIds :
                (Stored(id) /\ store.outbox[id].event_type = "emit_receipt")
                    => store.outbox[id].attempts = 0)
    /\ \A id \in OutboxIds :
            (~outbox_endpoint /\ IsPending(id)
                /\ store.outbox[id].event_type = "emit_receipt")
                ~> IsDelivered(id)

\* an emit_receipt event was delivered without an endpoint and without a call
C38_Witness ==
    /\ ~outbox_endpoint
    /\ last_delivery.id \in OutboxIds
    /\ IsDelivered(last_delivery.id)
    /\ store.outbox[last_delivery.id].event_type = "emit_receipt"
    /\ store.outbox[last_delivery.id].attempts = 0
    /\ ~last_delivery.http
    /\ mark_count[last_delivery.id] = 1

\* an event of a type the workers' closure does not know
IsUnknownType(id) == Stored(id) /\ store.outbox[id].event_type # "emit_receipt"

\* a delivery of an event of an unknown type fails without an HTTP call, adds
\* one to its attempts and leaves it pending
UnknownTypeFails ==
    \A w \in Workers :
        (DeliveryStep(w) /\ IsUnknownType(Handed(w)))
        => /\ last_delivery'.id = Handed(w)
           /\ last_delivery'.result = "err"
           /\ ~last_delivery'.http
           /\ store'.outbox[Handed(w)].attempts = store.outbox[Handed(w)].attempts + 1
           /\ store'.outbox[Handed(w)].state = "pending"

UnresolvableBearer(w) ==
    /\ writes[w].route = "chips"
    /\ writes[w].cred.kind = "bearer"
    /\ ~KnockFails(w)
    /\ \/ ReliedOn(w) = <<>>
       \/ writes[w].expired
       \/ writes[w].token_revoked

\* C40: a write to POST /v1/chips with an Authorization: Bearer header whose
\* token is unknown, expired or revoked is denied with 401 and a deny receipt
\* and never reaches the pipeline, whatever the write access policy: also
\* when auth is not required and no API keys are configured, when the chip is
\* in a public lane, and when a valid X-API-Key is presented as well.
C40_UnresolvableBearerFinal ==
    \A w \in Written :
        UnresolvableBearer(w) => DeniedWith(w, 401, "UNAUTHORIZED")

\* the same for a token that is unknown or has expired
UnknownOrExpiredFinal ==
    \A w \in Written :
        (UnresolvableBearer(w) /\ ~writes[w].token_revoked)
            => DeniedWith(w, 401, "UNAUTHORIZED")

\* an unknown bearer token with a valid X-API-Key on a public lane of an open
\* policy was answered 401 with a deny receipt
UnknownBearerDenied ==
    \E w \in Written :
        /\ UnresolvableBearer(w)
        /\ ReliedOn(w) = <<>>
        /\ writes[w].cred.x_api_key = "k-test"
        /\ writes[w].body.chip = ChipPublic
        /\ ~write_access_policy.auth_required
        /\ writes[w].pc = "done"
        /\ writes[w].resp.status = 401
        /\ CarriesDenyReceipt(w)

============================================================================
